---- MODULE Spec2Model ----
(***************************************************************************)
(* Model of zod-mongo: the connection manager ZodMongoDatabaseConnection   *)
(* (zod-mongo-database-connection.ts).                                     *)
(*                                                                         *)
(* JavaScript runs every synchronous stretch of code atomically; an await  *)
(* ends the stretch.  Each action below is one such stretch: a public call *)
(* up to its first await, or the continuation of an await.  The transport  *)
(* (MongoClient) is the environment: it decides whether connect() succeeds,*)
(* when close() completes and when it signals 'close'.                     *)
(*                                                                         *)
(* Time is counted in milliseconds.  It passes between steps, at most up   *)
(* to the deadline of the next timer; timers fire at their deadline, and   *)
(* any number of other steps can happen at one instant.                    *)
(*                                                                         *)
(* A storage call of the repository is three moments: the method calls the *)
(* collection, the collection executes the call, the promise of the call   *)
(* settles and the method returns.  Other steps happen in between.         *)
(***************************************************************************)
EXTENDS Integers, Sequences, FiniteSets, TLC

\* ---------------------------------------------------------------- bounds
\* The number of calls (of setup, ensureDb and disconnect, and in NextWait of
\* the repository methods) made in one behaviour.
MaxCalls == 3

\* The number of repository methods called in one behaviour.
MaxOps == 2

\* The invocations of reading methods in a behaviour of SpecRead.
MaxReads == 1


\* ------------------------------------------------------ program constants
\* private maxRetries = 5; private retryDelay = 1000;
DefaultMaxRetries == 5
DefaultRetryDelay == 1000

\* An optional value is a set: {} when the option is absent, {v} when given.
Coalesce(opt, dflt) == IF opt = {} THEN dflt ELSE CHOOSE v \in opt : TRUE

\* The DatabaseOptions passed to setup (client and dbName are fixed: one
\* MongoClient, one database name).
OptionChoices ==
    { [maxRetries |-> {},  retryDelay |-> {}],
      [maxRetries |-> {2}, retryDelay |-> {1}],
      [maxRetries |-> {1}, retryDelay |-> {2}],
      [maxRetries |-> {0}, retryDelay |-> {}] }

\* Errors client.connect() can reject with.
ConnectErrors == {"E1", "E2"}

VARIABLES
    connection,         \* [db, client, isConnected]; db and client are {} (null) or {handle}
    connectionPromise,  \* 0 (null) or the index in procs of the promise held
    maxRetries,
    retryDelay,
    procs,              \* the establishConnection invocations, in start order
    setups,             \* per setup call: the index of the promise it returned
    waiters,            \* the ensureDb invocations, in call order
    discs,              \* the disconnect invocations, in call order
    clientOpen,         \* the transport is open
    closeListeners,     \* number of 'close' listeners registered on the client
    errorListeners,     \* number of 'error' listeners registered on the client
    now,                \* the clock
    emitted,            \* the events emitted by the last step, in order
    ret                 \* the value returned by the last synchronous read

\* The state of a ZodMongoRepository, of its collection and of the classes it
\* uses (zod-mongo-repository.ts, TimestampManager, ObjectId).
VARIABLES
    repo,               \* the repository's fields: [timestamps, idInSchema,
                        \* stampsInSchema]
    store,              \* the documents of its collection, in natural order
    ops,                \* the repository method invocations, in call order
    lastTimestamp,      \* TimestampManager.lastTimestamp
    objectIds           \* the number of ObjectIds generated so far

managerVars == << connection, connectionPromise, maxRetries, retryDelay, procs,
                  setups, waiters, discs, clientOpen, closeListeners,
                  errorListeners, now, emitted, ret >>

repoVars == << repo, store, ops, lastTimestamp, objectIds >>

vars == << managerVars, repoVars >>

NoConnection == [db |-> {}, client |-> {}, isConnected |-> FALSE]

\* A returned value: value is the Db returned ({} for none), error the error
\* thrown ({} for none), flag the boolean returned by isConnected().
NoRet == [op |-> "none", ok |-> TRUE, value |-> {}, error |-> {}, flag |-> FALSE]

\* An emitted event together with what a listener sees when it runs.
Event(name, conn) == [name |-> name, isConnected |-> conn.isConnected, db |-> conn.db]

Min(S) == CHOOSE x \in S : \A y \in S : x <= y

\* The calls made so far: of setup, of ensureDb (by the caller or by a
\* repository method), of disconnect, and of the repository methods that threw
\* before they called ensureDb.
Calls ==
    Len(setups) + Len(waiters) + Len(discs)
        + Cardinality({ o \in DOMAIN ops : ops[o].waiter = 0 })

\* A repository constructed with a schema that declares _id and without the
\* timestamps option: this.timestamps = input.timestamps ?? true.
DefaultRepository ==
    [timestamps |-> TRUE, idInSchema |-> TRUE, stampsInSchema |-> FALSE]

\* A repository as its constructor leaves it, on an empty collection; no
\* timestamp and no ObjectId has been generated yet.
InitRepository(fields) ==
    /\ repo = fields
    /\ store = << >>
    /\ ops = << >>
    /\ lastTimestamp = 0
    /\ objectIds = 0

\* The manager as its field initialisers leave it, before setup, and a default
\* repository.
Init ==
    /\ connection = NoConnection
    /\ connectionPromise = 0
    /\ maxRetries = DefaultMaxRetries
    /\ retryDelay = DefaultRetryDelay
    /\ procs = << >>
    /\ setups = << >>
    /\ waiters = << >>
    /\ discs = << >>
    /\ clientOpen = FALSE
    /\ closeListeners = 0
    /\ errorListeners = 0
    /\ now = 0
    /\ emitted = << >>
    /\ ret = NoRet
    /\ InitRepository(DefaultRepository)

\* The continuation of an await on a promise of the program itself (the wait of
\* retryGetDb, the promise of retryGetDb) is a microtask: it runs before the
\* next timer or transport event is handled.
\* So is the continuation of await this.collection() in a repository method
\* whose ensureDb call has settled.
MicrotasksDrained ==
    /\ \A w \in DOMAIN waiters : waiters[w].pc \notin {"signalled", "checked"}
    /\ \A o \in DOMAIN ops :
          ops[o].pc = "awaiting" => waiters[ops[o].waiter].pc # "done"

\* ------------------------------------------------- establishConnection
\* The head of the while loop: either the next client.connect() is called and
\* awaited, or the loop is left and the function returns undefined.
\* p is the invocation, mr the manager's maxRetries, conn its connection and
\* open the transport's state as the loop head runs, t the time.
LoopHead(p, mr, conn, open, t) ==
    IF p.attempts < mr
    THEN [p EXCEPT !.pc = "connecting", !.opens = @ + 1, !.failAt = 0,
                   !.shortGap = @ \/ (p.attempts > 0 /\ t - p.failAt < p.startRD)]
    ELSE [p EXCEPT !.pc = "resolved", !.failAt = 0,
                   !.endConn = conn, !.endOpen = open]

\* establishConnection up to its first await, called with the manager's
\* maxRetries and retryDelay as setup has just set them.
\* Beside the code's local state (pc, attempts, wakeAt) an invocation records
\* what it did: opens (connect() calls), failAt (time of the failure it sleeps
\* on), shortGap (a retry began less than startRD after the failure), err (the
\* error it threw), established, skipped (returned at once: already connected),
\* emittedError, connectedEvents, startMR and startRD (maxRetries and retryDelay
\* as its setup call left them), endConn and endOpen (the connection and the
\* transport as it returned or threw).
EstablishStart(conn, mr, rd, open, t) ==
    LET p0 == [pc |-> "resolved", attempts |-> 0, opens |-> 0, wakeAt |-> 0,
               failAt |-> 0, err |-> {}, established |-> FALSE, skipped |-> FALSE,
               startMR |-> mr, startRD |-> rd, shortGap |-> FALSE,
               emittedError |-> FALSE, connectedEvents |-> 0,
               endConn |-> NoConnection, endOpen |-> FALSE]
    IN  IF conn.isConnected
        THEN [p0 EXCEPT !.skipped = TRUE, !.endConn = conn, !.endOpen = open]
        ELSE LoopHead(p0, mr, conn, open, t)

\* Mutant of Coalesced: setup never returns the promise it holds.
CoalescedNever(promise) == FALSE

\* if (this.connectionPromise) return this.connectionPromise;
Coalesced(promise) == promise # 0

\* The teardown steps taken so far: disconnect calls and their completions.
TeardownSteps == Len(discs) + Cardinality({ d \in DOMAIN discs : discs[d] = "done" })

\* setup(options)
Setup(opts) ==
    /\ Calls < MaxCalls
    /\ LET mr == Coalesce(opts.maxRetries, maxRetries)
           rd == Coalesce(opts.retryDelay, retryDelay)
       IN  /\ maxRetries' = mr
           /\ retryDelay' = rd
           /\ IF Coalesced(connectionPromise)
              THEN /\ setups' = Append(setups, [promise |-> connectionPromise,
                                                epoch |-> TeardownSteps])
                   /\ UNCHANGED << procs, connectionPromise >>
              ELSE /\ procs' = Append(procs, EstablishStart(connection, mr, rd,
                                                            clientOpen, now))
                   /\ connectionPromise' = Len(procs) + 1
                   /\ setups' = Append(setups, [promise |-> Len(procs) + 1,
                                                epoch |-> TeardownSteps])
    /\ emitted' = << >>
    /\ ret' = NoRet
    /\ UNCHANGED << connection, waiters, discs, clientOpen, closeListeners,
                    errorListeners, now >>
    /\ UNCHANGED repoVars

\* Mutant of EmitConnected: the listener is registered with on, not once, and
\* stays registered after it ran.
EmitConnectedOn(ws, db) ==
    [i \in DOMAIN ws |->
        IF ws[i].listening
        THEN [ws[i] EXCEPT !.pc = "signalled", !.signal = db, !.timer = FALSE]
        ELSE ws[i]]

\* this.emit("connected"): every registered once("connected") listener of
\* retryGetDb is removed, clears its timeout and resolves its promise.
\* db is the session handle recorded when the event is emitted.
EmitConnected(ws, db) ==
    [i \in DOMAIN ws |->
        IF ws[i].listening
        THEN [ws[i] EXCEPT !.pc = "signalled", !.signal = db,
                           !.listening = FALSE, !.timer = FALSE]
        ELSE ws[i]]

\* Mutant of Connected: the flag is set, the session handle is not recorded.
ConnectedFlagOnly(p) == [db |-> {}, client |-> {"client"}, isConnected |-> TRUE]

\* The connection fields as the try block leaves them.
Connected(p) == [db |-> {p}, client |-> {"client"}, isConnected |-> TRUE]

\* Mutant of ConnectedEvent: "connected" is emitted before the fields are set.
ConnectedEventBeforeFields(p) == Event("connected", connection)

\* What the listeners of "connected" see.
ConnectedEvent(p) == Event("connected", Connected(p))

\* client.connect() resolved: the rest of the try block.
ConnectOk(p) ==
    /\ p \in DOMAIN procs
    /\ procs[p].pc = "connecting"
    /\ connection' = Connected(p)
    /\ emitted' = << ConnectedEvent(p) >>
    /\ waiters' = EmitConnected(waiters, Connected(p).db)
    /\ closeListeners' = closeListeners + 1
    /\ errorListeners' = errorListeners + 1
    /\ clientOpen' = TRUE
    /\ procs' = [procs EXCEPT ![p].pc = "resolved", ![p].established = TRUE,
                              ![p].connectedEvents = @ + 1,
                              ![p].endConn = Connected(p), ![p].endOpen = TRUE]
    /\ ret' = NoRet
    /\ UNCHANGED << connectionPromise, maxRetries, retryDelay, setups, discs, now >>
    /\ UNCHANGED repoVars

\* client.connect() rejected with e: the catch block.
ConnectFail(p, e) ==
    /\ p \in DOMAIN procs
    /\ procs[p].pc = "connecting"
    /\ LET n == procs[p].attempts + 1
       IN  IF n = maxRetries
           THEN /\ procs' = [procs EXCEPT ![p].pc = "rejected", ![p].attempts = n,
                                          ![p].err = {e}, ![p].emittedError = TRUE,
                                          ![p].endConn = connection,
                                          ![p].endOpen = clientOpen]
                /\ emitted' = << Event("error", connection) >>
           ELSE /\ procs' = [procs EXCEPT ![p].pc = "sleeping", ![p].attempts = n,
                                          ![p].failAt = now,
                                          ![p].wakeAt = now + retryDelay]
                /\ emitted' = << >>
    /\ ret' = NoRet
    /\ UNCHANGED << connection, connectionPromise, maxRetries, retryDelay, setups,
                    waiters, discs, clientOpen, closeListeners, errorListeners, now >>
    /\ UNCHANGED repoVars

\* The retry timer fired: back to the head of the loop.
Wake(p) ==
    /\ p \in DOMAIN procs
    /\ procs[p].pc = "sleeping"
    /\ now >= procs[p].wakeAt
    /\ MicrotasksDrained
    /\ procs' = [procs EXCEPT ![p] = LoopHead(procs[p], maxRetries, connection,
                                              clientOpen, now)]
    /\ emitted' = << >>
    /\ ret' = NoRet
    /\ UNCHANGED << connection, connectionPromise, maxRetries, retryDelay, setups,
                    waiters, discs, clientOpen, closeListeners, errorListeners, now >>
    /\ UNCHANGED repoVars

\* Mutant of CloseListener: the listener only emits "disconnected".
CloseListenerKeepsFlag(conn) == conn

\* The client's 'close' event: every registered close listener runs.
CloseListener(conn) == [conn EXCEPT !.isConnected = FALSE]

TransportClose ==
    /\ clientOpen
    /\ MicrotasksDrained
    /\ clientOpen' = FALSE
    /\ connection' = IF closeListeners > 0 THEN CloseListener(connection)
                                            ELSE connection
    /\ emitted' = [i \in 1..closeListeners |->
                      Event("disconnected", CloseListener(connection))]
    /\ ret' = NoRet
    /\ UNCHANGED << connectionPromise, maxRetries, retryDelay, procs, setups, waiters,
                    discs, closeListeners, errorListeners, now >>
    /\ UNCHANGED repoVars

\* The client's 'error' event: the registered error listeners run in turn and
\* re-emit it on the manager.  When the manager has no listener of "error"
\* the first one throws out of client.emit and the others do not run:
\* this.emit("error", error) with (handled) or without a listener of "error"
\* on the manager; without one emit throws the error, which leaves the
\* listener.
TransportError(handled) ==
    /\ clientOpen
    /\ MicrotasksDrained
    /\ emitted' = [i \in 1..(IF handled THEN errorListeners
                                        ELSE Min({1, errorListeners})) |->
                      Event("error", connection)]
    /\ ret' = IF errorListeners = 0 \/ handled THEN NoRet
              ELSE [NoRet EXCEPT !.op = "emit", !.ok = FALSE,
                                 !.error = {"TransportError"}]
    /\ UNCHANGED << connection, connectionPromise, maxRetries, retryDelay, procs,
                    setups, waiters, discs, clientOpen, closeListeners,
                    errorListeners, now >>
    /\ UNCHANGED repoVars

\* ------------------------------------------------------------ disconnect
\* disconnect() up to await client.close(); without a client it returns.
DisconnectBegin ==
    /\ Calls < MaxCalls
    /\ discs' = Append(discs, IF connection.client # {} THEN "closing" ELSE "noop")
    /\ emitted' = << >>
    /\ ret' = NoRet
    /\ UNCHANGED << connection, connectionPromise, maxRetries, retryDelay, procs,
                    setups, waiters, clientOpen, closeListeners, errorListeners, now >>
    /\ UNCHANGED repoVars

\* client.close() resolved: the rest of disconnect().
DisconnectFinish(d) ==
    /\ d \in DOMAIN discs
    /\ discs[d] = "closing"
    /\ discs' = [discs EXCEPT ![d] = "done"]
    /\ connection' = NoConnection
    /\ connectionPromise' = 0
    /\ clientOpen' = FALSE
    /\ emitted' = << Event("disconnected", NoConnection) >>
    /\ ret' = NoRet
    /\ UNCHANGED << maxRetries, retryDelay, procs, setups, waiters, closeListeners,
                    errorListeners, now >>
    /\ UNCHANGED repoVars

\* ------------------------------------------------- ensureDb / retryGetDb
Resolved(db) == [status |-> "resolved", value |-> db, error |-> {}]
Rejected(err) == [status |-> "rejected", value |-> {}, error |-> {err}]
Pending == [status |-> "pending", value |-> {}, error |-> {}]

\* ensureDb() up to its first await.
\* Mutant of EnsureDbStart: ensureDb tests the connected flag, not the handle.
EnsureDbStartByFlag(conn, mr, rd, t) ==
    LET w0 == [pc |-> "done", deadline |-> 0, dbAtCall |-> conn.db,
               wasConnected |-> conn.isConnected, waited |-> FALSE,
               signal |-> {}, early |-> FALSE, listening |-> FALSE,
               timer |-> FALSE, result |-> Pending]
    IN  IF conn.isConnected
        THEN [w0 EXCEPT !.result = Resolved(conn.db)]
        ELSE [w0 EXCEPT !.pc = "waiting", !.waited = TRUE, !.deadline = t + mr * rd,
                        !.listening = TRUE, !.timer = TRUE]

\* Beside pc, deadline (of the timeout) and result an invocation records
\* dbAtCall and wasConnected (the connection as it was called), waited, signal
\* (the handle recorded as "connected" resolved its wait) and early (it was
\* rejected before its deadline), listening (its once("connected") listener is
\* registered) and timer (its timeout is armed).
EnsureDbStart(conn, mr, rd, t) ==
    LET w0 == [pc |-> "done", deadline |-> 0, dbAtCall |-> conn.db,
               wasConnected |-> conn.isConnected, waited |-> FALSE,
               signal |-> {}, early |-> FALSE, listening |-> FALSE,
               timer |-> FALSE, result |-> Pending]
    IN  IF conn.db # {}
        THEN [w0 EXCEPT !.result = Resolved(conn.db)]
        ELSE IF ~conn.isConnected
             THEN [w0 EXCEPT !.pc = "waiting", !.waited = TRUE, !.deadline = t + mr * rd,
                        !.listening = TRUE, !.timer = TRUE]
             ELSE [w0 EXCEPT !.result = Rejected("DatabaseNotConnected")]

EnsureDb ==
    /\ Calls < MaxCalls
    /\ waiters' = Append(waiters, EnsureDbStart(connection, maxRetries, retryDelay, now))
    /\ emitted' = << >>
    /\ ret' = NoRet
    /\ UNCHANGED << connection, connectionPromise, maxRetries, retryDelay, procs,
                    setups, discs, clientOpen, closeListeners, errorListeners, now >>
    /\ UNCHANGED repoVars

\* The timeout of retryGetDb fired: the listener is removed, the wait rejects.
WaiterTimeout(w) ==
    /\ w \in DOMAIN waiters
    /\ waiters[w].timer
    /\ now >= waiters[w].deadline
    /\ MicrotasksDrained
    /\ waiters' = [waiters EXCEPT ![w].pc = "done", ![w].deadline = 0,
                                  ![w].listening = FALSE, ![w].timer = FALSE,
                                  ![w].early = now < waiters[w].deadline,
                                  ![w].result = Rejected("DatabaseNotConnected")]
    /\ emitted' = << >>
    /\ ret' = NoRet
    /\ UNCHANGED << connection, connectionPromise, maxRetries, retryDelay, procs,
                    setups, discs, clientOpen, closeListeners, errorListeners, now >>
    /\ UNCHANGED repoVars

\* retryGetDb after its wait was resolved by "connected": the final check.
\* The timeout was cleared by the listener; wr.deadline is the deadline it had.
RetryGetDbCheck(wr, conn, t) ==
    IF conn.db = {}
    THEN [wr EXCEPT !.pc = "done", !.early = t < wr.deadline, !.deadline = 0,
                    !.result = Rejected("DatabaseNotConnected")]
    ELSE [wr EXCEPT !.pc = "checked"]

RetryGetDbResume(w) ==
    /\ w \in DOMAIN waiters
    /\ waiters[w].pc = "signalled"
    /\ waiters' = [waiters EXCEPT ![w] = RetryGetDbCheck(waiters[w], connection, now)]
    /\ emitted' = << >>
    /\ ret' = NoRet
    /\ UNCHANGED << connection, connectionPromise, maxRetries, retryDelay, procs,
                    setups, discs, clientOpen, closeListeners, errorListeners, now >>
    /\ UNCHANGED repoVars

\* ensureDb after await this.retryGetDb(): return this.connection.db!
EnsureDbResume(w) ==
    /\ w \in DOMAIN waiters
    /\ waiters[w].pc = "checked"
    /\ waiters' = [waiters EXCEPT ![w].pc = "done", ![w].deadline = 0,
                                  ![w].result = Resolved(connection.db)]
    /\ emitted' = << >>
    /\ ret' = NoRet
    /\ UNCHANGED << connection, connectionPromise, maxRetries, retryDelay, procs,
                    setups, discs, clientOpen, closeListeners, errorListeners, now >>
    /\ UNCHANGED repoVars

\* ------------------------------------------------------ getDb, isConnected
\* Mutant of getDb: only the handle is tested.
getDbByHandle(conn) ==
    IF conn.db = {}
    THEN [NoRet EXCEPT !.op = "getDb", !.ok = FALSE, !.error = {"DatabaseNotConnected"}]
    ELSE [NoRet EXCEPT !.op = "getDb", !.value = conn.db]

getDb(conn) ==
    IF conn.db = {} \/ ~conn.isConnected
    THEN [NoRet EXCEPT !.op = "getDb", !.ok = FALSE, !.error = {"DatabaseNotConnected"}]
    ELSE [NoRet EXCEPT !.op = "getDb", !.value = conn.db]

isConnected(conn) == [NoRet EXCEPT !.op = "isConnected", !.flag = conn.isConnected]

GetDb ==
    /\ ret' = getDb(connection)
    /\ emitted' = << >>
    /\ UNCHANGED << connection, connectionPromise, maxRetries, retryDelay, procs,
                    setups, waiters, discs, clientOpen, closeListeners,
                    errorListeners, now >>
    /\ UNCHANGED repoVars

IsConnected ==
    /\ ret' = isConnected(connection)
    /\ emitted' = << >>
    /\ UNCHANGED << connection, connectionPromise, maxRetries, retryDelay, procs,
                    setups, waiters, discs, clientOpen, closeListeners,
                    errorListeners, now >>
    /\ UNCHANGED repoVars

\* ------------------------------------------------------------------ time
Deadlines ==
    { procs[p].wakeAt : p \in { q \in DOMAIN procs : procs[q].pc = "sleeping" } }
    \cup { waiters[w].deadline : w \in { v \in DOMAIN waiters : waiters[v].pc = "waiting" } }

\* The deadline of the timer that fires next (now when no timer is armed).
NextDeadline == IF Deadlines = {} THEN now ELSE Min(Deadlines)

\* The instants the clock is observed at between two readings from and to:
\* to itself, and the instants at which a timer armed would fire together with
\* an armed timer, one millisecond earlier and one millisecond later.  The
\* durations of the timers the manager arms are the sleep of a retry and the
\* timeout of a wait.
ClockInstants(from, to) ==
    LET Durations == { retryDelay, maxRetries * retryDelay }
    IN  { t \in {to} \cup { D - d + e : D \in Deadlines, d \in Durations,
                                         e \in {-1, 0, 1} } :
            from < t /\ t <= to }

\* Time passes, at most up to the next timer's deadline: no timer is left
\* behind.  What happens next (a connect() that settles, a call) happens at an
\* instant between two deadlines or at the deadline.
Advance(t) ==
    /\ MicrotasksDrained
    /\ Deadlines # {}
    /\ t \in ClockInstants(now, NextDeadline)
    /\ now' = t
    /\ emitted' = << >>
    /\ ret' = NoRet
    /\ UNCHANGED << connection, connectionPromise, maxRetries, retryDelay, procs,
                    setups, waiters, discs, clientOpen, closeListeners, errorListeners >>
    /\ UNCHANGED repoVars

Next ==
    \/ \E opts \in OptionChoices : Setup(opts)
    \/ \E p \in DOMAIN procs : ConnectOk(p)
    \/ \E p \in DOMAIN procs, e \in ConnectErrors : ConnectFail(p, e)
    \/ \E p \in DOMAIN procs : Wake(p)
    \/ TransportClose
    \/ \E handled \in BOOLEAN : TransportError(handled)
    \/ DisconnectBegin
    \/ \E d \in DOMAIN discs : DisconnectFinish(d)
    \/ EnsureDb
    \/ \E w \in DOMAIN waiters : WaiterTimeout(w)
    \/ \E w \in DOMAIN waiters : RetryGetDbResume(w)
    \/ \E w \in DOMAIN waiters : EnsureDbResume(w)
    \/ GetDb
    \/ IsConnected
    \/ \E t \in ClockInstants(now, NextDeadline) : Advance(t)

Spec == Init /\ [][Next]_vars

\* ==================================================== ZodMongoRepository
\* A repository method runs synchronously up to await this.collection(), which
\* calls ensureDb of the connection manager; its continuation makes the storage
\* call and returns to the event loop.  The collection is the environment: it
\* executes one call atomically, and the calls of overlapping methods in any
\* order; the driver's promise settles later, and with it the method.  An
\* invocation is awaiting (this.collection()), issued (the storage call is
\* made), executed (the collection has executed it) and done (settled).

Max(a, b) == IF a >= b THEN a ELSE b

The(S) == CHOOSE x \in S : TRUE

\* ---------------------------------------------------------------- inputs
\* The values of the field age: a number, undefined (the key is there, its
\* value is undefined) and null.
Num(n) == [type |-> "number", n |-> n]

Undefined == [type |-> "undefined", n |-> 0]

Null == [type |-> "null", n |-> 0]

\* The field age when the document has no key age (an input without it, a
\* document a projection left it out of).
Absent == [type |-> "absent", n |-> 0]

\* A document.  _id, createdAt and updatedAt are {} when the field is absent.
Doc(id, email, age) ==
    [_id |-> id, email |-> email, age |-> age, createdAt |-> {}, updatedAt |-> {}]

\* The schema of the tests: an object with an email (z.string().email()) and an
\* age (z.number().optional()), with or without the key _id.
ValidEmails == {"a", "b"}

\* The inputs of insertOne: with and without an _id, valid and invalid (an
\* invalid email, { email, age: null }), { email, age: undefined } and
\* { email }.
InsertInputs ==
    { Doc(id, e, Num(1)) : id \in {{}, {100}}, e \in {"a", "b", "bad"} }
        \cup { Doc({}, "a", age) : age \in { Undefined, Absent, Null } }

\* The inputs of insertMany.
Batches ==
    { << Doc({}, "a", Num(1)), Doc({}, "a", Absent) >>,
      << Doc({}, "a", Num(1)), Doc({}, "bad", Num(1)) >>,
      << Doc({}, "bad", Num(1)), Doc({}, "a", Num(1)) >> }

\* A filter names an _id, an email, both or neither ({} when it does not name
\* the field).
NoFilter == [_id |-> {}, email |-> {}]

\* The filters { email: e }.
Filters == { [NoFilter EXCEPT !.email = {e}] : e \in {"a", "b"} }

\* The filters of the update methods.
UpdateFilters == { [NoFilter EXCEPT !.email = {"a"}] }

\* The fields of a $set clause ({} when the field is not set).
NoSet == [age |-> {}, createdAt |-> {}, updatedAt |-> {}]

\* An update: set is {} without a $set clause, inc is {} without $inc: {age}.
NoUpdate == [set |-> {}, inc |-> {}]

\* { $inc: { age: 1 } }, { $set: { age: 2, updatedAt: new Date(0) } } and
\* { $set: { createdAt: new Date(0) } }.
Updates ==
    { [set |-> {}, inc |-> {1}],
      [set |-> { [NoSet EXCEPT !.age = {2}, !.updatedAt = {0}] }, inc |-> {}],
      [set |-> { [NoSet EXCEPT !.createdAt = {0}] }, inc |-> {}] }

\* The options of a method: returnDocument, includeResultMetadata, sort (by
\* age, 1 ascending), skip, limit and fields (the set of the field names
\* listed), each {} when the caller does not pass it.
NoOptions ==
    [returnDocument |-> {}, includeResultMetadata |-> {}, sort |-> {}, skip |-> {},
     limit |-> {}, fields |-> {}]

\* The options findOneAndUpdate is called with: none, { returnDocument:
\* "before" }, { includeResultMetadata: true }.
ReturnOptions ==
    { NoOptions, [NoOptions EXCEPT !.returnDocument = {"before"}],
      [NoOptions EXCEPT !.includeResultMetadata = {TRUE}] }

\* What Date.now() can read: the clock may stand still and may be set back.
ClockReadings == {0, 3}

\* The repositories constructed: timestamps on or off, schema with or without
\* _id; the schemas of the tests do not declare createdAt and updatedAt.
Repositories ==
    { [timestamps |-> t, idInSchema |-> i, stampsInSchema |-> FALSE] :
        t \in BOOLEAN, i \in BOOLEAN }

\* ------------------------------------------------------ TimestampManager
\* Mutant of getNewTimestamp: Math.max(now, this.lastTimestamp).
getNewTimestampUnclamped(last, reading) == Max(reading, last)

\* getNewTimestamp() with lastTimestamp = last and Date.now() = reading: the
\* instant returned, which is also the new lastTimestamp.
getNewTimestamp(last, reading) == Max(reading, last + 1)

\* The instants returned by successive calls of getNewTimestamp.
RECURSIVE Instants(_, _)
Instants(last, readings) ==
    IF Len(readings) = 0
    THEN << >>
    ELSE LET t == getNewTimestamp(last, readings[1])
         IN  << t >> \o Instants(t, SubSeq(readings, 2, Len(readings)))

\* lastTimestamp after the calls that returned stamps.
LastOf(stamps, last) == IF Len(stamps) = 0 THEN last ELSE stamps[Len(stamps)]

\* Mutant of addTimestamps: { createdAt: now, updatedAt: now, ...doc }, the
\* values of the document win.
addTimestampsUnderDoc(doc, last, reading) ==
    LET t == getNewTimestamp(last, reading)
    IN  [doc EXCEPT !.createdAt = IF @ = {} THEN {t} ELSE @,
                    !.updatedAt = IF @ = {} THEN {t} ELSE @]

\* Mutant of addTimestamps: createdAt and updatedAt come from two calls.
addTimestampsTwoCalls(doc, last, reading) ==
    [doc EXCEPT !.createdAt = { getNewTimestamp(last, reading) },
                !.updatedAt = { getNewTimestamp(getNewTimestamp(last, reading), reading) }]

addTimestamps(doc, last, reading) ==
    LET t == getNewTimestamp(last, reading)
    IN  [doc EXCEPT !.createdAt = {t}, !.updatedAt = {t}]

\* Mutant of stampBatch: one instant is generated for the whole batch.
stampBatchOnce(validated, last, readings) ==
    [i \in DOMAIN validated |-> addTimestamps(validated[i], last, readings[1])]

\* validated.map((item) => TimestampManager.addTimestamps(item)): one call per
\* item, in batch order, each reading the clock.
stampBatch(validated, last, readings) ==
    [i \in DOMAIN validated |->
        addTimestamps(validated[i],
                      IF i = 1 THEN last ELSE Instants(last, readings)[i - 1],
                      readings[i])]

\* updateTimestamp(update) applied to a $set clause.
updateTimestamp(set, last, reading) ==
    [set EXCEPT !.updatedAt = { getNewTimestamp(last, reading) }]

\* ------------------------------------------------------------ the schema
\* { _id: new ObjectId(), ...input }
WithObjectId(input, oid) == [input EXCEPT !._id = IF @ = {} THEN {oid} ELSE @]

\* Mutant of parse: the schema accepts every input.
parseAnything(fields, obj) ==
    [ok |-> TRUE,
     value |-> [obj EXCEPT !._id = IF fields.idInSchema THEN @ ELSE {},
                           !.createdAt = IF fields.stampsInSchema THEN @ ELSE {},
                           !.updatedAt = IF fields.stampsInSchema THEN @ ELSE {}]]

\* this.schema.parse(obj): throws a ZodError on an invalid email and on an age
\* that is given and is neither a number nor undefined; the value returned has
\* the keys the schema declares (z.object strips the others), a key given as
\* undefined included.
parse(fields, obj) ==
    [ok |-> /\ obj.email \in ValidEmails
            /\ obj.age.type \in {"number", "undefined", "absent"},
     value |-> [obj EXCEPT !._id = IF fields.idInSchema THEN @ ELSE {},
                           !.createdAt = IF fields.stampsInSchema THEN @ ELSE {},
                           !.updatedAt = IF fields.stampsInSchema THEN @ ELSE {}]]

\* The timestamps branch of updateOne, updateMany and findOneAndUpdate: the
\* update handed to the collection.
stampUpdate(fields, update, last, reading) ==
    IF ~fields.timestamps
    THEN update
    ELSE IF update.set # {}
         THEN [update EXCEPT !.set = { updateTimestamp(The(update.set), last, reading) }]
         ELSE [NoUpdate EXCEPT !.set = { updateTimestamp(NoSet, last, reading) }]

\* The caller's update object after the timestamps branch ran: update.$set =
\* ... assigns to the object the caller passed, update = { $set: ... } rebinds
\* the parameter and leaves the caller's object alone.
callerUpdate(fields, update, last, reading) ==
    IF fields.timestamps /\ update.set # {}
    THEN [update EXCEPT !.set = { updateTimestamp(The(update.set), last, reading) }]
    ELSE update

\* -------------------------------------------------------- the collection
Matches(doc, filter) ==
    /\ filter._id = {} \/ doc._id = filter._id
    /\ filter.email = {} \/ doc.email \in filter.email

Matching(docs, filter) == { i \in DOMAIN docs : Matches(docs[i], filter) }

\* The document as the driver serializes it: a field whose value is undefined
\* is written as null (ignoreUndefined is off).
serialize(doc) == [doc EXCEPT !.age = IF @.type = "undefined" THEN Null ELSE @]

\* $inc applies to a number and to a document without the field (which it
\* sets to the increment): the server rejects it on null.
CanApply(doc, update) == update.inc = {} \/ doc.age.type \in {"number", "absent"}

\* $set replaces the fields it names, $inc adds to age.
ApplyUpdate(doc, update) ==
    LET set == IF update.set = {} THEN NoSet ELSE The(update.set)
    IN  [doc EXCEPT !.age = IF set.age # {} THEN Num(The(set.age))
                            ELSE IF update.inc # {} THEN Num(@.n + The(update.inc))
                            ELSE @,
                    !.createdAt = IF set.createdAt = {} THEN @ ELSE set.createdAt,
                    !.updatedAt = IF set.updatedAt = {} THEN @ ELSE set.updatedAt]

\* The driver gives a document without _id a new ObjectId before it sends it
\* (it sets the field on the object it was handed).
pkFactory(doc, oid) == WithObjectId(doc, oid)

DuplicateKey(docs, doc) == \E i \in DOMAIN docs : docs[i]._id = doc._id

collection_insertOne(docs, doc) ==
    IF DuplicateKey(docs, doc)
    THEN [ok |-> FALSE, docs |-> docs]
    ELSE [ok |-> TRUE, docs |-> Append(docs, serialize(doc))]

\* An ordered insertMany writes the documents before the first duplicate key.
collection_insertMany(docs, batch) ==
    LET dup == { i \in DOMAIN batch :
                    \/ DuplicateKey(docs, batch[i])
                    \/ \E j \in 1..(i - 1) : batch[j]._id = batch[i]._id }
        n == IF dup = {} THEN Len(batch) ELSE Min(dup) - 1
    IN  [ok |-> dup = {}, docs |-> docs \o [i \in 1..n |-> serialize(batch[i])],
         n |-> n]

\* The document found: {} for null.
collection_findOne(docs, filter) ==
    IF Matching(docs, filter) = {} THEN {} ELSE { docs[Min(Matching(docs, filter))] }

\* ok is FALSE when the server rejects the update.
collection_updateOne(docs, filter, update) ==
    LET M == Matching(docs, filter)
    IN  IF M = {}
        THEN [ok |-> TRUE, docs |-> docs, n |-> 0]
        ELSE IF ~CanApply(docs[Min(M)], update)
        THEN [ok |-> FALSE, docs |-> docs, n |-> 0]
        ELSE [ok |-> TRUE, docs |-> [docs EXCEPT ![Min(M)] = ApplyUpdate(@, update)],
              n |-> 1]

\* updateMany stops at the first document the update cannot be applied to; the
\* documents before it stay updated.
collection_updateMany(docs, filter, update) ==
    LET M == Matching(docs, filter)
        bad == { i \in M : ~CanApply(docs[i], update) }
        done == IF bad = {} THEN M ELSE { i \in M : i < Min(bad) }
    IN  [ok |-> bad = {},
         docs |-> [i \in DOMAIN docs |->
                      IF i \in done THEN ApplyUpdate(docs[i], update) ELSE docs[i]],
         n |-> Cardinality(done)]

\* doc is the document found: {} for null, else the document as it is after
\* the update (returnDocument "after") or as it was before.  With
\* includeResultMetadata: true the driver's promise resolves with
\* { value: doc, ok, lastErrorObject } (wrapped), else with doc.
collection_findOneAndUpdate(docs, filter, update, options) ==
    LET M == Matching(docs, filter)
        r == collection_updateOne(docs, filter, update)
        after == r.docs
    IN  [ok |-> r.ok,
         docs |-> after,
         doc |-> IF M = {} THEN {}
                 ELSE IF options.returnDocument = {"after"} THEN { after[Min(M)] }
                 ELSE { docs[Min(M)] },
         wrapped |-> options.includeResultMetadata = {TRUE}]

\* The values of the field key in the documents the filter selects.
collection_distinct(docs, key, filter) ==
    { docs[i][key] : i \in Matching(docs, filter) }

\* The positions M in natural order.
RECURSIVE NaturalOrder(_)
NaturalOrder(M) ==
    IF M = {} THEN << >> ELSE << Min(M) >> \o NaturalOrder(M \ { Min(M) })

\* deleteOne removes the first document the filter selects; n is deletedCount.
collection_deleteOne(docs, filter) ==
    LET M == Matching(docs, filter)
    IN  IF M = {} THEN [docs |-> docs, n |-> 0]
        ELSE [docs |-> [i \in 1..(Len(docs) - 1) |->
                           IF i < Min(M) THEN docs[i] ELSE docs[i + 1]],
              n |-> 1]

\* deleteMany removes every document the filter selects.
collection_deleteMany(docs, filter) ==
    LET M == Matching(docs, filter)
        kept == NaturalOrder(DOMAIN docs \ M)
    IN  [docs |-> [i \in DOMAIN kept |-> docs[kept[i]]], n |-> Cardinality(M)]

\* ------------------------------------------------------------ invocations
\* What a method settles with: doc is the document returned ({} for none or
\* null), wrapped whether the value is a { value: doc, ok, lastErrorObject },
\* docs the documents returned, n the count returned, flag the boolean
\* returned, cursor the cursor returned, values the values returned, error the
\* error thrown, filter the filter the error carries.
NoResult ==
    [status |-> "pending", error |-> {}, doc |-> {}, wrapped |-> FALSE,
     docs |-> << >>, filter |-> {}, n |-> 0, flag |-> FALSE, cursor |-> {},
     values |-> {}]

Returned(doc, n) == [NoResult EXCEPT !.status = "resolved", !.doc = doc, !.n = n]

Thrown(error) == [NoResult EXCEPT !.status = "rejected", !.error = error]

\* Mutant of ZodDocumentNotFoundError: the error does not carry the filter.
ZodDocumentNotFoundErrorBare(filter) == Thrown({"DocumentNotFound"})

\* new ZodDocumentNotFoundError(message, filter)
ZodDocumentNotFoundError(filter) ==
    [NoResult EXCEPT !.status = "rejected", !.error = {"DocumentNotFound"},
                     !.filter = {filter}]

\* An invocation records its arguments (docs, filter, key, update as it
\* was when the method was called, options), the caller's update object as the
\* method's timestamps branch leaves it (updateAfter), what it handed to the
\* collection (sentDocs, sentUpdate, sentOptions), the instants it was given
\* (stamps), its ensureDb call (waiter), whether the collection executed a
\* write of it (wrote), what the driver's promise settles with (reply) and its
\* result.
\* The update a caller passes is an object of the caller: owner is the
\* invocation it was first passed to (0 without an update) and object, kept at
\* the owner, is the object as it is now; rebound tells that the method
\* replaced its parameter by an object of its own.  Until the storage call is
\* made sentUpdate is the update the method held when its timestamps branch
\* ended.
NewOp(kind) ==
    [kind |-> kind, pc |-> "awaiting", docs |-> << >>, filter |-> NoFilter,
     key |-> "", update |-> NoUpdate, updateAfter |-> NoUpdate,
     options |-> NoOptions, owner |-> 0, object |-> NoUpdate, rebound |-> FALSE,
     sentDocs |-> << >>,
     sentUpdate |-> NoUpdate, sentOptions |-> NoOptions, stamps |-> << >>,
     waiter |-> 0, wrote |-> FALSE, reply |-> NoResult, result |-> NoResult]

\* Mutant of RepoFrame: a repository method clears the manager's promise.
RepoFrameClearsPromise ==
    /\ emitted' = << >>
    /\ ret' = NoRet
    /\ connectionPromise' = 0
    /\ UNCHANGED << connection, maxRetries, retryDelay, procs, setups, discs,
                    clientOpen, closeListeners, errorListeners, now, repo >>

\* What a repository method leaves alone.
RepoFrame ==
    /\ emitted' = << >>
    /\ ret' = NoRet
    /\ UNCHANGED << connection, connectionPromise, maxRetries, retryDelay, procs,
                    setups, discs, clientOpen, closeListeners, errorListeners,
                    now, repo >>

\* await this.collection(): ensureDb is called, the method waits for it.
AwaitCollection(op) ==
    /\ ops' = Append(ops, [op EXCEPT !.waiter = Len(waiters) + 1])
    /\ waiters' = Append(waiters, EnsureDbStart(connection, maxRetries, retryDelay, now))

\* Mutant of ThrowAtOnce: the method validates after await this.collection().
ThrowWhenReady(op, error) == AwaitCollection([op EXCEPT !.sentDocs = op.docs])

\* The method throws before it calls this.collection().
ThrowAtOnce(op, error) ==
    /\ ops' = Append(ops, [op EXCEPT !.pc = "done", !.result = Thrown(error)])
    /\ UNCHANGED waiters

\* The ensureDb call of invocation o has settled: the continuation of its
\* await this.collection() is queued.  The continuations queued run in the
\* order of the microtask queue, which depends on the promises each of them
\* goes through; the order is left open here.
Ready(o, kind) ==
    /\ o \in DOMAIN ops
    /\ ops[o].kind = kind
    /\ ops[o].pc = "awaiting"
    /\ waiters[ops[o].waiter].pc = "done"

\* The storage call of invocation o is made and not executed yet.
Issued(o, kind) ==
    /\ o \in DOMAIN ops
    /\ ops[o].kind = kind
    /\ ops[o].pc = "issued"

\* The collection has executed the storage call of invocation o; the driver's
\* promise has not settled yet.
Executed(o, kind) ==
    /\ o \in DOMAIN ops
    /\ ops[o].kind = kind
    /\ ops[o].pc = "executed"

\* Mutant of collection: a rejection of ensureDb is swallowed.
collectionUnchecked(wr) == NoResult

\* collection() after ensureDb settled: what it throws, NoResult when it
\* returns the collection (db.collection on the handle ensureDb resolved with).
collection(wr) ==
    IF wr.result.status = "rejected" THEN Thrown(wr.result.error)
    ELSE IF wr.result.value = {} THEN Thrown({"TypeError"})
    ELSE NoResult

\* The method settles without a storage call: collection() threw, or the
\* method returns what it has.
Ends(o, result) ==
    /\ ops' = [ops EXCEPT ![o].pc = "done", ![o].result = result]
    /\ UNCHANGED << store, objectIds >>

\* The continuation of await this.collection(): collection() throws and the
\* method rejects, or the method makes its storage call.  sent is the
\* invocation as the call leaves it, ids the ObjectIds the driver generated.
CallCollection(o, sent, ids) ==
    /\ LET c == collection(waiters[ops[o].waiter])
       IN  IF c.status = "rejected"
           THEN Ends(o, c)
           ELSE /\ ops' = [ops EXCEPT ![o] = [sent EXCEPT !.pc = "issued"]]
                /\ objectIds' = objectIds + ids
                /\ UNCHANGED store
    /\ UNCHANGED << waiters, lastTimestamp >>
    /\ RepoFrame

\* The collection executes the storage call of invocation o: docs is the
\* collection after it, reply what the driver's promise will settle with.
\* It is an event of the transport: the microtasks have run.
Executes(o, docs, reply, wrote) ==
    /\ MicrotasksDrained
    /\ store' = docs
    /\ ops' = [ops EXCEPT ![o].pc = "executed", ![o].wrote = wrote,
                          ![o].reply = reply]
    /\ UNCHANGED << waiters, lastTimestamp, objectIds >>
    /\ RepoFrame

\* The driver's promise has settled and the method settles with result: a
\* continuation, which runs among those of the other invocations.
Settles(o, result) ==
    /\ ops' = [ops EXCEPT ![o].pc = "done", ![o].result = result]
    /\ UNCHANGED << store, waiters, lastTimestamp, objectIds >>
    /\ RepoFrame

\* ----------------------------------------------------- insertOne, insertMany
InsertOne(input, reading) ==
    /\ Len(ops) < MaxOps
    /\ LET validated == parse(repo, WithObjectId(input, objectIds + 1))
           stamps == IF repo.timestamps THEN Instants(lastTimestamp, << reading >>)
                                        ELSE << >>
           doc == IF repo.timestamps
                  THEN addTimestamps(validated.value, lastTimestamp, reading)
                  ELSE validated.value
           op == [NewOp("insertOne") EXCEPT !.docs = << input >>]
       IN  /\ objectIds' = objectIds + 1
           /\ IF validated.ok
              THEN /\ AwaitCollection([op EXCEPT !.sentDocs = << doc >>,
                                                 !.stamps = stamps])
                   /\ lastTimestamp' = LastOf(stamps, lastTimestamp)
              ELSE /\ ThrowAtOnce(op, {"ZodError"})
                   /\ UNCHANGED lastTimestamp
    /\ UNCHANGED store
    /\ RepoFrame

\* collection.insertOne(doc, options) is called: the driver sets _id on doc.
InsertOneSend(o) ==
    /\ Ready(o, "insertOne")
    /\ LET doc == pkFactory(ops[o].sentDocs[1], objectIds + 1)
       IN  CallCollection(o, [ops[o] EXCEPT !.sentDocs = << doc >>],
                          IF ops[o].sentDocs[1]._id = {} THEN 1 ELSE 0)

InsertOneWrite(o) ==
    /\ Issued(o, "insertOne")
    /\ LET r == collection_insertOne(store, ops[o].sentDocs[1])
       IN  Executes(o, r.docs,
                    IF r.ok THEN Returned({}, 1) ELSE Thrown({"DuplicateKey"}),
                    TRUE)

\* return { doc, result }
InsertOneReturn(o) ==
    /\ Executed(o, "insertOne")
    /\ Settles(o, IF ops[o].reply.status = "rejected" THEN ops[o].reply
                  ELSE Returned({ ops[o].sentDocs[1] }, 1))

InsertMany(batch, readings) ==
    /\ Len(ops) < MaxOps
    /\ LET n == Len(batch)
           merged == [i \in 1..n |-> WithObjectId(batch[i], objectIds + i)]
           invalid == { i \in 1..n : ~parse(repo, merged[i]).ok }
           validated == [i \in 1..n |-> parse(repo, merged[i]).value]
           stamps == IF repo.timestamps THEN Instants(lastTimestamp, readings)
                                        ELSE << >>
           docs == IF repo.timestamps
                   THEN stampBatch(validated, lastTimestamp, readings)
                   ELSE validated
           op == [NewOp("insertMany") EXCEPT !.docs = batch]
       IN  IF invalid = {}
           THEN /\ objectIds' = objectIds + n
                /\ AwaitCollection([op EXCEPT !.sentDocs = docs, !.stamps = stamps])
                /\ lastTimestamp' = LastOf(stamps, lastTimestamp)
           ELSE /\ objectIds' = objectIds + Min(invalid)
                /\ ThrowAtOnce(op, {"ZodError"})
                /\ UNCHANGED lastTimestamp
    /\ UNCHANGED store
    /\ RepoFrame

\* collection.insertMany(docs, options) is called: the driver sets _id on the
\* documents that have none.
InsertManySend(o) ==
    /\ Ready(o, "insertMany")
    /\ LET sent == ops[o].sentDocs
           noId == { i \in DOMAIN sent : sent[i]._id = {} }
           docs == [i \in DOMAIN sent |->
                       pkFactory(sent[i], objectIds
                                          + Cardinality({ j \in noId : j <= i }))]
       IN  CallCollection(o, [ops[o] EXCEPT !.sentDocs = docs], Cardinality(noId))

InsertManyWrite(o) ==
    /\ Issued(o, "insertMany")
    /\ LET r == collection_insertMany(store, ops[o].sentDocs)
       IN  Executes(o, r.docs,
                    IF r.ok THEN Returned({}, r.n) ELSE Thrown({"DuplicateKey"}),
                    TRUE)

InsertManyReturn(o) ==
    /\ Executed(o, "insertMany")
    /\ Settles(o, ops[o].reply)

\* ---------------------------------------------------- findOne, findOneStrict
FindOne(filter) ==
    /\ Len(ops) < MaxOps
    /\ AwaitCollection([NewOp("findOne") EXCEPT !.filter = filter])
    /\ UNCHANGED << store, lastTimestamp, objectIds >>
    /\ RepoFrame

\* collection.findOne(filter, options) is called.
FindOneSend(o) ==
    /\ Ready(o, "findOne")
    /\ CallCollection(o, ops[o], 0)

FindOneRead(o) ==
    /\ Issued(o, "findOne")
    /\ Executes(o, store, Returned(collection_findOne(store, ops[o].filter), 0),
                FALSE)

FindOneReturn(o) ==
    /\ Executed(o, "findOne")
    /\ Settles(o, ops[o].reply)

\* findOneStrict awaits this.findOne(filter, options).
FindOneStrict(filter) ==
    /\ Len(ops) < MaxOps
    /\ AwaitCollection([NewOp("findOneStrict") EXCEPT !.filter = filter])
    /\ UNCHANGED << store, lastTimestamp, objectIds >>
    /\ RepoFrame

FindOneStrictSend(o) ==
    /\ Ready(o, "findOneStrict")
    /\ CallCollection(o, ops[o], 0)

FindOneStrictRead(o) ==
    /\ Issued(o, "findOneStrict")
    /\ Executes(o, store, Returned(collection_findOne(store, ops[o].filter), 0),
                FALSE)

\* if (!result) throw new ZodDocumentNotFoundError(...); return result
FindOneStrictReturn(o) ==
    /\ Executed(o, "findOneStrict")
    /\ Settles(o, IF ops[o].reply.doc = {}
                  THEN ZodDocumentNotFoundError(ops[o].filter)
                  ELSE ops[o].reply)

\* ------------------------------- updateOne, updateMany, findOneAndUpdate
\* The update objects a caller can pass: a new object, and the object it
\* passed to an earlier call, as it is now.
UpdateObjects ==
    { [owner |-> 0, value |-> u] : u \in Updates }
        \cup { [owner |-> q, value |-> ops[q].object] :
                  q \in { o \in DOMAIN ops : ops[o].owner = o } }

\* The three methods up to await this.collection(); passed is the caller's
\* update object.  update.$set = ... assigns to that object; update = { $set:
\* ... } makes the parameter an object of the method.
UpdateBegin(kind, filter, passed, options, reading) ==
    /\ Len(ops) < MaxOps
    /\ LET update == passed.value
           owner == IF passed.owner = 0 THEN Len(ops) + 1 ELSE passed.owner
           after == callerUpdate(repo, update, lastTimestamp, reading)
           stamps == IF repo.timestamps THEN Instants(lastTimestamp, << reading >>)
                                        ELSE << >>
           op == [NewOp(kind) EXCEPT
                     !.filter = filter,
                     !.update = update,
                     !.updateAfter = after,
                     !.options = options,
                     !.owner = owner,
                     !.object = IF passed.owner = 0 THEN after ELSE NoUpdate,
                     !.rebound = repo.timestamps /\ update.set = {},
                     !.sentUpdate = stampUpdate(repo, update, lastTimestamp, reading),
                     !.stamps = stamps,
                     !.waiter = Len(waiters) + 1]
       IN  /\ ops' = Append([q \in DOMAIN ops |->
                                IF q = owner THEN [ops[q] EXCEPT !.object = after]
                                             ELSE ops[q]],
                            op)
           /\ waiters' = Append(waiters, EnsureDbStart(connection, maxRetries,
                                                       retryDelay, now))
           /\ lastTimestamp' = LastOf(stamps, lastTimestamp)
    /\ UNCHANGED << store, objectIds >>
    /\ RepoFrame

\* The caller changes the update object it passed to invocation q into value,
\* while a method that was handed the object has not made its storage call.
CallerAssigns(q, value) ==
    /\ q \in DOMAIN ops
    /\ ops[q].owner = q
    /\ ops[q].object # value
    /\ \E o \in DOMAIN ops :
          ops[o].owner = q /\ ops[o].pc = "awaiting" /\ ~ops[o].rebound
    /\ ops' = [ops EXCEPT ![q].object = value]
    /\ UNCHANGED << store, waiters, lastTimestamp, objectIds >>
    /\ RepoFrame

\* The update invocation o hands to the collection after await
\* this.collection(): its parameter update, which is the caller's object as it
\* is by then unless the method replaced it.
handedUpdate(o) ==
    [ops[o] EXCEPT !.sentUpdate = IF ops[o].rebound THEN @
                                  ELSE ops[ops[o].owner].object]

UpdateOne(filter, passed, reading) ==
    UpdateBegin("updateOne", filter, passed, NoOptions, reading)

\* collection.updateOne(filter, update, options) is called.
UpdateOneSend(o) ==
    /\ Ready(o, "updateOne")
    /\ CallCollection(o, handedUpdate(o), 0)

UpdateOneWrite(o) ==
    /\ Issued(o, "updateOne")
    /\ LET r == collection_updateOne(store, ops[o].filter, ops[o].sentUpdate)
       IN  Executes(o, r.docs,
                    IF r.ok THEN Returned({}, r.n) ELSE Thrown({"MongoServerError"}),
                    TRUE)

UpdateOneReturn(o) ==
    /\ Executed(o, "updateOne")
    /\ Settles(o, ops[o].reply)

UpdateMany(filter, passed, reading) ==
    UpdateBegin("updateMany", filter, passed, NoOptions, reading)

\* collection.updateMany(filter, update, options) is called.
UpdateManySend(o) ==
    /\ Ready(o, "updateMany")
    /\ CallCollection(o, handedUpdate(o), 0)

UpdateManyWrite(o) ==
    /\ Issued(o, "updateMany")
    /\ LET r == collection_updateMany(store, ops[o].filter, ops[o].sentUpdate)
       IN  Executes(o, r.docs,
                    IF r.ok THEN Returned({}, r.n) ELSE Thrown({"MongoServerError"}),
                    TRUE)

UpdateManyReturn(o) ==
    /\ Executed(o, "updateMany")
    /\ Settles(o, ops[o].reply)

FindOneAndUpdate(filter, passed, options, reading) ==
    UpdateBegin("findOneAndUpdate", filter, passed, options, reading)

\* { ...options, returnDocument: "after" }
returnDocumentAfter(options) == [options EXCEPT !.returnDocument = {"after"}]

\* collection.findOneAndUpdate(filter, update, { ...options, returnDocument:
\* "after" }) is called.
FindOneAndUpdateSend(o) ==
    /\ Ready(o, "findOneAndUpdate")
    /\ CallCollection(o, [handedUpdate(o) EXCEPT
                             !.sentOptions = returnDocumentAfter(ops[o].options)],
                      0)

FindOneAndUpdateWrite(o) ==
    /\ Issued(o, "findOneAndUpdate")
    /\ LET r == collection_findOneAndUpdate(store, ops[o].filter, ops[o].sentUpdate,
                                            ops[o].sentOptions)
       IN  Executes(o, r.docs,
                    IF r.ok THEN [Returned(r.doc, 0) EXCEPT !.wrapped = r.wrapped]
                            ELSE Thrown({"MongoServerError"}),
                    TRUE)

\* if (!result) throw new ZodDocumentNotFoundError(...); return result: a
\* { value: null, ok, lastErrorObject } is an object, !result is false.
FindOneAndUpdateReturn(o) ==
    /\ Executed(o, "findOneAndUpdate")
    /\ Settles(o, IF ops[o].reply.status = "rejected" THEN ops[o].reply
                  ELSE IF ops[o].reply.doc = {} /\ ~ops[o].reply.wrapped
                       THEN ZodDocumentNotFoundError(ops[o].filter)
                       ELSE ops[o].reply)

\* -------------------------------------------------- deleteOne, deleteMany
\* A delete method up to await this.collection().
DeleteBegin(kind, filter) ==
    /\ Len(ops) < MaxOps
    /\ AwaitCollection([NewOp(kind) EXCEPT !.filter = filter])
    /\ UNCHANGED << store, lastTimestamp, objectIds >>
    /\ RepoFrame

DeleteOne(filter) == DeleteBegin("deleteOne", filter)

\* collection.deleteOne(filter, options) is called.
DeleteOneSend(o) ==
    /\ Ready(o, "deleteOne")
    /\ CallCollection(o, ops[o], 0)

DeleteOneWrite(o) ==
    /\ Issued(o, "deleteOne")
    /\ LET r == collection_deleteOne(store, ops[o].filter)
       IN  Executes(o, r.docs, Returned({}, r.n), TRUE)

DeleteOneReturn(o) ==
    /\ Executed(o, "deleteOne")
    /\ Settles(o, ops[o].reply)

DeleteMany(filter) == DeleteBegin("deleteMany", filter)

\* collection.deleteMany(filter, options) is called.
DeleteManySend(o) ==
    /\ Ready(o, "deleteMany")
    /\ CallCollection(o, ops[o], 0)

DeleteManyWrite(o) ==
    /\ Issued(o, "deleteMany")
    /\ LET r == collection_deleteMany(store, ops[o].filter)
       IN  Executes(o, r.docs, Returned({}, r.n), TRUE)

DeleteManyReturn(o) ==
    /\ Executed(o, "deleteMany")
    /\ Settles(o, ops[o].reply)

\* ------------------------------------------- findMany, countDocuments, exists
\* a is before b in the collection's sort order: null and a missing field
\* sort before numbers.
Before(a, b) ==
    \/ a.type \in {"null", "absent"} /\ b.type = "number"
    \/ a.type = "number" /\ b.type = "number" /\ a.n < b.n

\* The orders a sort by age can return the documents at the positions M in
\* (direction 1 ascending, -1 descending): the order of documents with equal
\* keys is the server's choice.
SortedOrders(docs, M, direction) ==
    { p \in [1..Cardinality(M) -> M] :
        /\ \A i, j \in DOMAIN p : i # j => p[i] # p[j]
        /\ \A i, j \in DOMAIN p :
              i < j => IF direction = 1 THEN ~Before(docs[p[j]].age, docs[p[i]].age)
                                        ELSE ~Before(docs[p[i]].age, docs[p[j]].age) }

\* collection.find(filter, options): the cursor takes sort, skip and limit
\* from the options; fields is no option of find, the cursor has no
\* projection ({}) until cursor.project is called.
collection_find(options) ==
    [sort |-> options.sort,
     skip |-> IF options.skip = {} THEN 0 ELSE The(options.skip),
     limit |-> IF options.limit = {} THEN 0 ELSE The(options.limit),
     projection |-> {}]

\* buildProjection(fields): an object with the key of every field listed, each
\* with the value 1.
buildProjection(fields) == [f \in fields |-> 1]

\* if (options?.fields) cursor.project(this.buildProjection(options.fields)):
\* called for every array, the empty one too.
cursor_project(cursor, options) ==
    IF options.fields # {}
    THEN [cursor EXCEPT !.projection = { buildProjection(The(options.fields)) }]
    ELSE cursor

\* if (options?.sort) cursor.sort(options.sort)
cursor_sort(cursor, options) ==
    IF options.sort # {} THEN [cursor EXCEPT !.sort = options.sort] ELSE cursor

\* if (options?.skip) cursor.skip(options.skip): not called for 0.
cursor_skip(cursor, options) ==
    IF options.skip # {} /\ The(options.skip) # 0
    THEN [cursor EXCEPT !.skip = The(options.skip)]
    ELSE cursor

\* if (options?.limit) cursor.limit(options.limit): not called for 0.
cursor_limit(cursor, options) ==
    IF options.limit # {} /\ The(options.limit) # 0
    THEN [cursor EXCEPT !.limit = The(options.limit)]
    ELSE cursor

\* The cursor findMany builds.
findManyCursor(options) ==
    cursor_limit(cursor_skip(cursor_sort(cursor_project(collection_find(options),
                                                        options),
                                         options),
                             options),
                 options)

\* A document as the cursor returns it: whole when cursor.project was not
\* called; under a projection of inclusions, _id and the fields named; with
\* no key in the projection, the whole document.  The field email that a
\* projection left out is "".
Projected(doc, projection) ==
    IF projection = {} \/ DOMAIN The(projection) = {} THEN doc
    ELSE LET keys == DOMAIN The(projection)
         IN  [_id |-> doc._id,
              email |-> IF "email" \in keys THEN doc.email ELSE "",
              age |-> IF "age" \in keys THEN doc.age ELSE Absent,
              createdAt |-> IF "createdAt" \in keys THEN doc.createdAt ELSE {},
              updatedAt |-> IF "updatedAt" \in keys THEN doc.updatedAt ELSE {}]

\* Mutant of toArray: the limit is applied before the skip.
toArrayLimitFirst(docs, order, cursor) ==
    LET from == cursor.skip + 1
        to == IF cursor.limit = 0 THEN Len(order)
              ELSE Min({ Len(order), cursor.limit })
    IN  [i \in 1..Max(0, to - from + 1) |-> Projected(docs[order[from + i - 1]], cursor.projection)]

\* cursor.toArray() when the server returns the selected documents in the
\* order of positions: skip documents are dropped, then at most limit are
\* returned, all of them when limit is 0.
toArray(docs, order, cursor) ==
    LET from == cursor.skip + 1
        to == IF cursor.limit = 0 THEN Len(order)
              ELSE Min({ Len(order), cursor.skip + cursor.limit })
    IN  [i \in 1..Max(0, to - from + 1) |-> Projected(docs[order[from + i - 1]], cursor.projection)]

collection_countDocuments(docs, filter) == Cardinality(Matching(docs, filter))

\* Mutant of exists: count > 1.
existsSeveral(count) == count > 1

\* return count > 0
exists(count) == count > 0

\* What a reading method leaves alone.
ReadFrame ==
    /\ UNCHANGED << store, lastTimestamp, objectIds >>
    /\ RepoFrame

\* A reading method up to await this.collection().
ReadBegin(kind, filter, options) ==
    /\ Len(ops) < MaxOps
    /\ AwaitCollection([NewOp(kind) EXCEPT !.filter = filter, !.options = options])
    /\ ReadFrame

FindMany(filter, options) == ReadBegin("findMany", filter, options)

\* collection.find(filter, options) is called, the cursor is set up and
\* cursor.toArray() is called.
FindManySend(o) ==
    /\ Ready(o, "findMany")
    /\ CallCollection(o, ops[o], 0)

FindManyRead(o) ==
    /\ Issued(o, "findMany")
    /\ LET cursor == findManyCursor(ops[o].options)
           M == Matching(store, ops[o].filter)
           orders == IF cursor.sort = {} THEN { NaturalOrder(M) }
                     ELSE SortedOrders(store, M, The(cursor.sort))
       IN  \E order \in orders :
              Executes(o, store,
                       [NoResult EXCEPT !.status = "resolved",
                                        !.docs = toArray(store, order, cursor)],
                       FALSE)

FindManyReturn(o) ==
    /\ Executed(o, "findMany")
    /\ Settles(o, ops[o].reply)

CountDocuments(filter) == ReadBegin("countDocuments", filter, NoOptions)

\* collection.countDocuments(filter, options) is called.
CountDocumentsSend(o) ==
    /\ Ready(o, "countDocuments")
    /\ CallCollection(o, ops[o], 0)

CountDocumentsRead(o) ==
    /\ Issued(o, "countDocuments")
    /\ Executes(o, store,
                Returned({}, collection_countDocuments(store, ops[o].filter)), FALSE)

\* return count
CountDocumentsReturn(o) ==
    /\ Executed(o, "countDocuments")
    /\ Settles(o, ops[o].reply)

\* exists awaits this.countDocuments(filter, options).
Exists(filter) == ReadBegin("exists", filter, NoOptions)

ExistsSend(o) ==
    /\ Ready(o, "exists")
    /\ CallCollection(o, ops[o], 0)

ExistsRead(o) ==
    /\ Issued(o, "exists")
    /\ Executes(o, store,
                Returned({}, collection_countDocuments(store, ops[o].filter)), FALSE)

\* return count > 0
ExistsReturn(o) ==
    /\ Executed(o, "exists")
    /\ Settles(o, [NoResult EXCEPT !.status = "resolved",
                                   !.flag = exists(ops[o].reply.n)])

\* find(filter, options) awaits this.collection() and returns
\* collection.find(filter, options): the cursor; the collection is not read
\* before the caller iterates the cursor.
Find(filter, options) == ReadBegin("find", filter, options)

FindReturn(o) ==
    /\ Ready(o, "find")
    /\ LET c == collection(waiters[ops[o].waiter])
       IN  Ends(o, IF c.status = "rejected" THEN c
                   ELSE [NoResult EXCEPT
                            !.status = "resolved",
                            !.cursor = { collection_find(ops[o].options) }])
    /\ UNCHANGED << waiters, lastTimestamp >>
    /\ RepoFrame

\* collection() as a method of the repository: it awaits ensureDb and returns
\* db.collection(this.collectionName), or throws what ensureDb threw.
Collection == ReadBegin("collection", NoFilter, NoOptions)

CollectionReturn(o) ==
    /\ Ready(o, "collection")
    /\ LET c == collection(waiters[ops[o].waiter])
       IN  Ends(o, IF c.status = "rejected" THEN c ELSE Returned({}, 0))
    /\ UNCHANGED << waiters, lastTimestamp >>
    /\ RepoFrame

\* distinct(key, filter, options) up to await this.collection().
Distinct(key, filter) ==
    /\ Len(ops) < MaxOps
    /\ AwaitCollection([NewOp("distinct") EXCEPT !.key = key, !.filter = filter])
    /\ ReadFrame

\* collection.distinct(key, filter, options) is called.
DistinctSend(o) ==
    /\ Ready(o, "distinct")
    /\ CallCollection(o, ops[o], 0)

DistinctRead(o) ==
    /\ Issued(o, "distinct")
    /\ Executes(o, store,
                [NoResult EXCEPT
                    !.status = "resolved",
                    !.values = collection_distinct(store, ops[o].key, ops[o].filter)],
                FALSE)

DistinctReturn(o) ==
    /\ Executed(o, "distinct")
    /\ Settles(o, ops[o].reply)

\* ------------------------------------------------ the repository's program
\* The manager after the application's setup call, made with the default
\* options, has resolved (as the tests' setup file leaves it): establishment 1
\* has connected.
InitConnected ==
    /\ connection = Connected(1)
    /\ connectionPromise = 1
    /\ maxRetries = DefaultMaxRetries
    /\ retryDelay = DefaultRetryDelay
    /\ procs = << [EstablishStart(NoConnection, DefaultMaxRetries, DefaultRetryDelay,
                                  FALSE, 0)
                      EXCEPT !.pc = "resolved", !.established = TRUE,
                             !.connectedEvents = 1, !.endConn = Connected(1),
                             !.endOpen = TRUE] >>
    /\ setups = << [promise |-> 1, epoch |-> 0] >>
    /\ waiters = << >>
    /\ discs = << >>
    /\ clientOpen = TRUE
    /\ closeListeners = 1
    /\ errorListeners = 1
    /\ now = 0
    /\ emitted = << >>
    /\ ret = NoRet

InitRepo == InitConnected /\ \E fields \in Repositories : InitRepository(fields)

NextRepo ==
    \/ \E input \in InsertInputs, reading \in ClockReadings : InsertOne(input, reading)
    \/ \E o \in DOMAIN ops : InsertOneSend(o)
    \/ \E o \in DOMAIN ops : InsertOneWrite(o)
    \/ \E o \in DOMAIN ops : InsertOneReturn(o)
    \/ \E batch \in Batches :
          \E readings \in [DOMAIN batch -> ClockReadings] : InsertMany(batch, readings)
    \/ \E o \in DOMAIN ops : InsertManySend(o)
    \/ \E o \in DOMAIN ops : InsertManyWrite(o)
    \/ \E o \in DOMAIN ops : InsertManyReturn(o)
    \/ \E filter \in Filters \cup
                      { [NoFilter EXCEPT !._id = d._id] :
                          d \in UNION { ops[o].result.doc : o \in DOMAIN ops } } :
          FindOne(filter)
    \/ \E o \in DOMAIN ops : FindOneSend(o)
    \/ \E o \in DOMAIN ops : FindOneRead(o)
    \/ \E o \in DOMAIN ops : FindOneReturn(o)
    \/ \E filter \in Filters : FindOneStrict(filter)
    \/ \E o \in DOMAIN ops : FindOneStrictSend(o)
    \/ \E o \in DOMAIN ops : FindOneStrictRead(o)
    \/ \E o \in DOMAIN ops : FindOneStrictReturn(o)
    \/ \E filter \in UpdateFilters, passed \in UpdateObjects, reading \in ClockReadings :
          UpdateOne(filter, passed, reading)
    \/ \E o \in DOMAIN ops : UpdateOneSend(o)
    \/ \E o \in DOMAIN ops : UpdateOneWrite(o)
    \/ \E o \in DOMAIN ops : UpdateOneReturn(o)
    \/ \E filter \in UpdateFilters, passed \in UpdateObjects, reading \in ClockReadings :
          UpdateMany(filter, passed, reading)
    \/ \E o \in DOMAIN ops : UpdateManySend(o)
    \/ \E o \in DOMAIN ops : UpdateManyWrite(o)
    \/ \E o \in DOMAIN ops : UpdateManyReturn(o)
    \/ \E filter \in UpdateFilters, passed \in UpdateObjects, reading \in ClockReadings :
          \E options \in ReturnOptions : FindOneAndUpdate(filter, passed, options, reading)
    \/ \E o \in DOMAIN ops : FindOneAndUpdateSend(o)
    \/ \E o \in DOMAIN ops : FindOneAndUpdateWrite(o)
    \/ \E o \in DOMAIN ops : FindOneAndUpdateReturn(o)
    \/ \E q \in DOMAIN ops :
          CallerAssigns(q, [set |-> { [NoSet EXCEPT !.age = {2}, !.updatedAt = {0}] },
                            inc |-> {}])
    \/ \E filter \in UpdateFilters : DeleteOne(filter)
    \/ \E o \in DOMAIN ops : DeleteOneSend(o)
    \/ \E o \in DOMAIN ops : DeleteOneWrite(o)
    \/ \E o \in DOMAIN ops : DeleteOneReturn(o)
    \/ \E filter \in UpdateFilters : DeleteMany(filter)
    \/ \E o \in DOMAIN ops : DeleteManySend(o)
    \/ \E o \in DOMAIN ops : DeleteManyWrite(o)
    \/ \E o \in DOMAIN ops : DeleteManyReturn(o)
    \/ \E filter \in Filters : Find(filter, NoOptions)
    \/ \E o \in DOMAIN ops : FindReturn(o)
    \/ \E filter \in Filters : Distinct("email", filter)
    \/ \E o \in DOMAIN ops : DistinctSend(o)
    \/ \E o \in DOMAIN ops : DistinctRead(o)
    \/ \E o \in DOMAIN ops : DistinctReturn(o)
    \/ Collection
    \/ \E o \in DOMAIN ops : CollectionReturn(o)

SpecRepo == InitRepo /\ [][NextRepo]_vars

\* ------------------------------------- repositories that share the generator
\* new ZodMongoRepository(input): the calls that follow are made on the
\* repository constructed, the invocations under way go on.  The repositories
\* share the TimestampManager (lastTimestamp is static), the manager and, when
\* they name the same collection, the collection.
Construct(fields) ==
    /\ repo' = fields
    /\ repo # fields
    /\ emitted' = << >>
    /\ ret' = NoRet
    /\ UNCHANGED << connection, connectionPromise, maxRetries, retryDelay, procs,
                    setups, waiters, discs, clientOpen, closeListeners,
                    errorListeners, now, store, ops, lastTimestamp, objectIds >>

NextShared ==
    \/ NextRepo
    \/ \E fields \in Repositories : Construct(fields)

SpecShared == InitRepo /\ [][NextShared]_vars

\* ------------------------------------------- the collection that is read
\* The documents of the collection the reading methods are called on, in the
\* order they were inserted, with the instant of their insertion.
Stored(id, email, age) ==
    [Doc({id}, email, Num(age)) EXCEPT !.createdAt = {id}, !.updatedAt = {id}]

Fixture == << Stored(1, "a", 2), Stored(2, "b", 1), Stored(3, "a", 3),
              Stored(4, "b", 2) >>

\* The options of findMany: with and without { sort: { age: 1 } }, skip,
\* limit and { fields: ["email"] }.
FindOptions ==
    { [NoOptions EXCEPT !.sort = s, !.skip = k, !.limit = l, !.fields = f] :
        s \in { {}, {1} }, k \in { {}, {1}, {2} }, l \in { {}, {0}, {1}, {2} },
        f \in { {}, { {"email"} } } }

\* A default repository on a connected manager, its collection holding
\* the documents of the fixture that were inserted before.
InitRead ==
    /\ InitConnected
    /\ repo = DefaultRepository
    /\ store \in { [i \in DOMAIN NaturalOrder(S) |-> Fixture[NaturalOrder(S)[i]]] :
                      S \in SUBSET DOMAIN Fixture }
    /\ ops = << >>
    /\ lastTimestamp = Len(Fixture)
    /\ objectIds = Len(Fixture)

NextRead ==
    \/ /\ Len(ops) < MaxReads
       /\ \E filter \in { NoFilter, The(UpdateFilters) }, options \in FindOptions :
             FindMany(filter, options)
    \/ \E o \in DOMAIN ops : FindManySend(o)
    \/ \E o \in DOMAIN ops : FindManyRead(o)
    \/ \E o \in DOMAIN ops : FindManyReturn(o)
    \/ Len(ops) < MaxReads /\ \E filter \in { NoFilter } \cup Filters : CountDocuments(filter)
    \/ \E o \in DOMAIN ops : CountDocumentsSend(o)
    \/ \E o \in DOMAIN ops : CountDocumentsRead(o)
    \/ \E o \in DOMAIN ops : CountDocumentsReturn(o)
    \/ Len(ops) < MaxReads /\ \E filter \in { NoFilter } \cup Filters : Exists(filter)
    \/ \E o \in DOMAIN ops : ExistsSend(o)
    \/ \E o \in DOMAIN ops : ExistsRead(o)
    \/ \E o \in DOMAIN ops : ExistsReturn(o)

SpecRead == InitRead /\ [][NextRead]_vars

\* ------------------------- the repository on a manager that is not connected
\* The program of the manager (setup, connection successes and failures,
\* retries, transport close and error events, teardowns, ensureDb, getDb,
\* isConnected, the clock) together with the methods of a default repository,
\* called from the start of the program on: before setup, while the connection
\* is being established, when it is established, after the transport closed
\* and after a teardown.  Date.now() reads the clock of the timers.  A method
\* call counts as a call, and getDb and isConnected are called as long as a
\* call can follow.  Setup is called with { maxRetries: 2, retryDelay: 1 }; a
\* method called before it waits with the defaults.  Two methods can be under
\* way at the same time, one of them an insert; the other pairs of methods
\* overlap on the connected manager of NextRepo.
\* A call of a repository method: insertOne or insertMany with a valid and
\* with an invalid input, or another method while no other than an insert is
\* under way.  update is a new object { $set: { age: 2, updatedAt: new
\* Date(0) } }, options is { sort: { age: 1 }, limit: 1, fields: ["email"] }.
WaitCall ==
    LET update == [owner |-> 0,
                   value |-> [set |-> { [NoSet EXCEPT !.age = {2},
                                                      !.updatedAt = {0}] },
                              inc |-> {}]]
        options == [NoOptions EXCEPT !.sort = {1}, !.limit = {1},
                                     !.fields = { {"email"} }]
        others == \A o \in DOMAIN ops : ops[o].kind \in {"insertOne", "insertMany"}
    IN  \/ \E input \in { Doc({}, "a", Absent), Doc({}, "bad", Num(1)) } :
              InsertOne(input, now)
        \/ \E batch \in { << Doc({}, "a", Num(1)), Doc({}, "a", Absent) >>,
                           << Doc({}, "a", Num(1)), Doc({}, "bad", Num(1)) >> } :
              InsertMany(batch, [i \in DOMAIN batch |-> now])
        \/ others /\ \E filter \in UpdateFilters : FindOne(filter)
        \/ others /\ \E filter \in UpdateFilters : FindOneStrict(filter)
        \/ others /\ \E filter \in UpdateFilters : UpdateOne(filter, update, now)
        \/ others /\ \E filter \in UpdateFilters : UpdateMany(filter, update, now)
        \/ others /\ \E filter \in UpdateFilters : FindOneAndUpdate(filter, update, NoOptions, now)
        \/ others /\ \E filter \in UpdateFilters : FindMany(filter, options)
        \/ others /\ \E filter \in UpdateFilters : CountDocuments(filter)
        \/ others /\ \E filter \in UpdateFilters : Exists(filter)
        \/ others /\ \E filter \in UpdateFilters : DeleteOne(filter)
        \/ others /\ \E filter \in UpdateFilters : DeleteMany(filter)
        \/ others /\ \E filter \in UpdateFilters : Find(filter, options)
        \/ others /\ \E filter \in UpdateFilters : Distinct("email", filter)
        \/ others /\ Collection

NextWait ==
    \/ \E opts \in { [maxRetries |-> {2}, retryDelay |-> {1}] } : Setup(opts)
    \/ \E p \in DOMAIN procs : ConnectOk(p)
    \/ \E p \in DOMAIN procs : ConnectFail(p, "E1")
    \/ \E p \in DOMAIN procs : Wake(p)
    \/ TransportClose
    \/ \E handled \in BOOLEAN : TransportError(handled)
    \/ DisconnectBegin
    \/ \E d \in DOMAIN discs : DisconnectFinish(d)
    \/ EnsureDb
    \/ \E w \in DOMAIN waiters : WaiterTimeout(w)
    \/ \E w \in DOMAIN waiters : RetryGetDbResume(w)
    \/ \E w \in DOMAIN waiters : EnsureDbResume(w)
    \/ Calls < MaxCalls /\ GetDb
    \/ Calls < MaxCalls /\ IsConnected
    \/ \E t \in ClockInstants(now, NextDeadline) : Advance(t)
    \/ Calls < MaxCalls /\ WaitCall
    \/ \E o \in DOMAIN ops : InsertOneSend(o)
    \/ \E o \in DOMAIN ops : InsertOneWrite(o)
    \/ \E o \in DOMAIN ops : InsertOneReturn(o)
    \/ \E o \in DOMAIN ops : InsertManySend(o)
    \/ \E o \in DOMAIN ops : InsertManyWrite(o)
    \/ \E o \in DOMAIN ops : InsertManyReturn(o)
    \/ \E o \in DOMAIN ops : FindOneSend(o)
    \/ \E o \in DOMAIN ops : FindOneRead(o)
    \/ \E o \in DOMAIN ops : FindOneReturn(o)
    \/ \E o \in DOMAIN ops : FindOneStrictSend(o)
    \/ \E o \in DOMAIN ops : FindOneStrictRead(o)
    \/ \E o \in DOMAIN ops : FindOneStrictReturn(o)
    \/ \E o \in DOMAIN ops : UpdateOneSend(o)
    \/ \E o \in DOMAIN ops : UpdateOneWrite(o)
    \/ \E o \in DOMAIN ops : UpdateOneReturn(o)
    \/ \E o \in DOMAIN ops : UpdateManySend(o)
    \/ \E o \in DOMAIN ops : UpdateManyWrite(o)
    \/ \E o \in DOMAIN ops : UpdateManyReturn(o)
    \/ \E o \in DOMAIN ops : FindOneAndUpdateSend(o)
    \/ \E o \in DOMAIN ops : FindOneAndUpdateWrite(o)
    \/ \E o \in DOMAIN ops : FindOneAndUpdateReturn(o)
    \/ \E o \in DOMAIN ops : FindManySend(o)
    \/ \E o \in DOMAIN ops : FindManyRead(o)
    \/ \E o \in DOMAIN ops : FindManyReturn(o)
    \/ \E o \in DOMAIN ops : CountDocumentsSend(o)
    \/ \E o \in DOMAIN ops : CountDocumentsRead(o)
    \/ \E o \in DOMAIN ops : CountDocumentsReturn(o)
    \/ \E o \in DOMAIN ops : ExistsSend(o)
    \/ \E o \in DOMAIN ops : ExistsRead(o)
    \/ \E o \in DOMAIN ops : ExistsReturn(o)
    \/ \E o \in DOMAIN ops : DeleteOneSend(o)
    \/ \E o \in DOMAIN ops : DeleteOneWrite(o)
    \/ \E o \in DOMAIN ops : DeleteOneReturn(o)
    \/ \E o \in DOMAIN ops : DeleteManySend(o)
    \/ \E o \in DOMAIN ops : DeleteManyWrite(o)
    \/ \E o \in DOMAIN ops : DeleteManyReturn(o)
    \/ \E o \in DOMAIN ops : FindReturn(o)
    \/ \E o \in DOMAIN ops : DistinctSend(o)
    \/ \E o \in DOMAIN ops : DistinctRead(o)
    \/ \E o \in DOMAIN ops : DistinctReturn(o)
    \/ \E o \in DOMAIN ops : CollectionReturn(o)

SpecWait == Init /\ [][NextWait]_vars

\* ------------------------------------ updates of a document stored before
\* A repository on a connected manager whose collection holds one document,
\* inserted before; the update methods are called on it and may overlap: each
\* call stamps its update before it awaits this.collection(), and the
\* collection applies the updates it was handed in the order it chooses.
InitUpdate ==
    /\ InitConnected
    /\ repo \in Repositories
    /\ store = << Stored(1, "a", 2) >>
    /\ ops = << >>
    /\ lastTimestamp = 1
    /\ objectIds = 1

NextUpdate ==
    \/ \E filter \in UpdateFilters, passed \in UpdateObjects, reading \in ClockReadings :
          UpdateOne(filter, passed, reading)
    \/ \E o \in DOMAIN ops : UpdateOneSend(o)
    \/ \E o \in DOMAIN ops : UpdateOneWrite(o)
    \/ \E o \in DOMAIN ops : UpdateOneReturn(o)
    \/ \E filter \in UpdateFilters, passed \in UpdateObjects, reading \in ClockReadings :
          UpdateMany(filter, passed, reading)
    \/ \E o \in DOMAIN ops : UpdateManySend(o)
    \/ \E o \in DOMAIN ops : UpdateManyWrite(o)
    \/ \E o \in DOMAIN ops : UpdateManyReturn(o)
    \/ \E filter \in UpdateFilters, passed \in UpdateObjects, reading \in ClockReadings :
          FindOneAndUpdate(filter, passed, NoOptions, reading)
    \/ \E o \in DOMAIN ops : FindOneAndUpdateSend(o)
    \/ \E o \in DOMAIN ops : FindOneAndUpdateWrite(o)
    \/ \E o \in DOMAIN ops : FindOneAndUpdateReturn(o)
    \/ \E q \in DOMAIN ops :
          CallerAssigns(q, [set |-> { [NoSet EXCEPT !.age = {2}, !.updatedAt = {0}] },
                            inc |-> {}])
    \/ \E filter \in UpdateFilters : DeleteOne(filter)
    \/ \E o \in DOMAIN ops : DeleteOneSend(o)
    \/ \E o \in DOMAIN ops : DeleteOneWrite(o)
    \/ \E o \in DOMAIN ops : DeleteOneReturn(o)
    \/ \E filter \in UpdateFilters : DeleteMany(filter)
    \/ \E o \in DOMAIN ops : DeleteManySend(o)
    \/ \E o \in DOMAIN ops : DeleteManyWrite(o)
    \/ \E o \in DOMAIN ops : DeleteManyReturn(o)

SpecUpdate == InitUpdate /\ [][NextUpdate]_vars

\* -------------------------- inserts under a schema that declares the stamps
\* Repositories whose schema declares _id and optional createdAt and
\* updatedAt, with timestamps on or off.
InitStamp ==
    /\ InitConnected
    /\ \E t \in BOOLEAN :
          InitRepository([timestamps |-> t, idInSchema |-> TRUE,
                          stampsInSchema |-> TRUE])

\* The inputs of insertOne and insertMany come with and without their own
\* createdAt and updatedAt (new Date(0)).
NextStamp ==
    \/ \E input \in { Doc({}, "a", Num(1)),
                       [Doc({}, "a", Absent) EXCEPT !.createdAt = {0},
                                                    !.updatedAt = {0}],
                       Doc({}, "bad", Num(1)) },
          reading \in ClockReadings : InsertOne(input, reading)
    \/ \E o \in DOMAIN ops : InsertOneSend(o)
    \/ \E o \in DOMAIN ops : InsertOneWrite(o)
    \/ \E o \in DOMAIN ops : InsertOneReturn(o)
    \/ \E batch \in { << [Doc({}, "a", Num(1)) EXCEPT !.createdAt = {0},
                                                      !.updatedAt = {0}],
                          Doc({}, "b", Num(1)) >>,
                       << Doc({}, "a", Num(1)),
                          [Doc({}, "b", Num(1)) EXCEPT !.createdAt = {0},
                                                      !.updatedAt = {0}] >> } :
          \E readings \in [DOMAIN batch -> ClockReadings] : InsertMany(batch, readings)
    \/ \E o \in DOMAIN ops : InsertManySend(o)
    \/ \E o \in DOMAIN ops : InsertManyWrite(o)
    \/ \E o \in DOMAIN ops : InsertManyReturn(o)

SpecStamp == InitStamp /\ [][NextStamp]_vars

\* ------------------------------------------------ the manager under fairness
\* Timers fire and continuations of settled promises run: the clock reaches
\* the next deadline, a due retry timer and a due timeout fire, a waiter whose
\* wait was resolved resumes.  Nothing is assumed of the transport (connect and
\* close may stay pending) nor of the callers.
NextLive ==
    \/ \E opts \in { [maxRetries |-> {2}, retryDelay |-> {1}] } : Setup(opts)
    \/ \E p \in DOMAIN procs : ConnectOk(p)
    \/ \E p \in DOMAIN procs : ConnectFail(p, "E1")
    \/ \E p \in DOMAIN procs : Wake(p)
    \/ TransportClose
    \/ DisconnectBegin
    \/ \E d \in DOMAIN discs : DisconnectFinish(d)
    \/ EnsureDb
    \/ \E w \in DOMAIN waiters : WaiterTimeout(w)
    \/ \E w \in DOMAIN waiters : RetryGetDbResume(w)
    \/ \E w \in DOMAIN waiters : EnsureDbResume(w)
    \/ \E t \in ClockInstants(now, NextDeadline) : Advance(t)

Fairness ==
    /\ WF_vars(\E t \in ClockInstants(now, NextDeadline) : Advance(t))
    /\ \A p \in 1..MaxCalls : WF_vars(Wake(p))
    /\ \A w \in 1..MaxCalls :
          /\ WF_vars(WaiterTimeout(w))
          /\ WF_vars(RetryGetDbResume(w))
          /\ WF_vars(EnsureDbResume(w))

SpecLive == Init /\ [][NextLive]_vars /\ Fairness

\* ================================================================ claims
HasEvent(evs, name) == \E i \in DOMAIN evs : evs[i].name = name

CountEvents(evs, name) == Cardinality({ i \in DOMAIN evs : evs[i].name = name })

Ended(p) == p.pc \in {"resolved", "rejected"}

\* What a setup call settles with: nothing yet, success, or the error thrown.
Outcome(i) ==
    LET p == procs[setups[i].promise]
    IN  [settled |-> Ended(p), pc |-> IF Ended(p) THEN p.pc ELSE "pending", err |-> p.err]

\* C1: setup calls with no teardown step between them return the same promise
\* (one establishment procedure is started for all of them) and so settle with
\* the same outcome; with no teardown at all at most one procedure is started.
C1_SetupCoalesced ==
    /\ \A i, j \in DOMAIN setups :
          setups[i].epoch = setups[j].epoch =>
             /\ setups[i].promise = setups[j].promise
             /\ Outcome(i) = Outcome(j)
    /\ (discs = << >>) => Len(procs) <= 1

\* C1 witness: a second setup call, made with no teardown after the first, has
\* settled with the failure of the first.
C1_Witness ==
    /\ Len(setups) >= 2
    /\ setups[1].epoch = setups[2].epoch
    /\ Outcome(2).pc = "rejected"
    /\ Outcome(2).err # {}

\* C2 (as claimed): a procedure calls connect() at most maxRetries times (the
\* maxRetries of the setup call that started it), stops at the first success,
\* never retries sooner than retryDelay after a failure, and has made exactly
\* maxRetries calls when it ends with every attempt failed.
C2_BoundedAttempts ==
    \A p \in DOMAIN procs :
        /\ procs[p].opens <= procs[p].startMR
        /\ ~procs[p].shortGap
        /\ procs[p].established => procs[p].pc = "resolved"
        /\ (Ended(procs[p]) /\ ~procs[p].established /\ ~procs[p].skipped)
              => procs[p].opens = procs[p].startMR

\* C3 (as claimed): once maxRetries attempts of a procedure have failed (the
\* maxRetries of the setup call that started it, at least 1), the procedure has
\* emitted "error" and rejected with the error of the last attempt, the manager
\* was Disconnected without a handle as it rejected, it emitted no "connected"
\* and it makes no further attempt.
C3_ExhaustedRejects ==
    \A p \in DOMAIN procs :
        (procs[p].startMR >= 1 /\ procs[p].attempts >= procs[p].startMR) =>
            /\ procs[p].pc = "rejected"
            /\ procs[p].emittedError
            /\ procs[p].err # {}
            /\ procs[p].endConn = NoConnection
            /\ procs[p].connectedEvents = 0
            /\ procs[p].opens = procs[p].startMR

\* C4 (as claimed): whenever the promise of setup has resolved, the manager had
\* opened the transport, held a session handle and was Connected at that moment.
C4_ResolvedMeansConnected ==
    \A p \in DOMAIN procs :
        procs[p].pc = "resolved" =>
            /\ procs[p].endOpen
            /\ procs[p].endConn.db # {}
            /\ procs[p].endConn.isConnected

NewlyEstablished ==
    { p \in DOMAIN procs : ~procs[p].established /\ procs'[p].established }

\* C5: a step emits "connected" exactly when one establishment succeeds in it,
\* and then exactly once; every listener of the event finds the handle of that
\* establishment recorded and the manager Connected.
C5_ConnectedOncePerSuccess ==
    [][ /\ CountEvents(emitted', "connected") = Cardinality(NewlyEstablished)
        /\ Cardinality(NewlyEstablished) <= 1
        /\ \A i \in DOMAIN emitted' :
              emitted'[i].name = "connected" =>
                  /\ emitted'[i].isConnected
                  /\ emitted'[i].db \in { {p} : p \in NewlyEstablished }
                  /\ emitted'[i].db = connection'.db
                  /\ isConnected(connection').flag
      ]_vars

\* C5 witness: "connected" has just been emitted with a waiter of ensureDb
\* among its listeners.
C5_Witness ==
    /\ HasEvent(emitted, "connected")
    /\ \E w \in DOMAIN waiters : waiters[w].pc = "signalled"

\* C6: a close signal of the transport while the manager is Connected leaves it
\* Disconnected (isConnected() false, getDb throws) and emits "disconnected".
C6_CloseDisconnects ==
    [][ (TransportClose /\ connection.isConnected) =>
            /\ ~isConnected(connection').flag
            /\ ~getDb(connection').ok
            /\ HasEvent(emitted', "disconnected")
      ]_vars

\* C6 witness: the close signal has just been handled: the handle is still
\* recorded, the manager is Disconnected.
C6_Witness ==
    /\ HasEvent(emitted, "disconnected")
    /\ connection.db # {}
    /\ ~connection.isConnected
    /\ ~clientOpen

\* C7 (as claimed): an ensureDb call made without a session handle is never
\* rejected before its timeout of maxRetries * retryDelay; it resolves with a
\* session handle when "connected" was emitted while it waited, and is rejected
\* with DatabaseNotConnected at the timeout otherwise.
C7_WaitsForConnected ==
    \A w \in DOMAIN waiters :
        waiters[w].dbAtCall = {} =>
            /\ waiters[w].result.status = "rejected" =>
                  /\ ~waiters[w].early
                  /\ waiters[w].result.error = {"DatabaseNotConnected"}
            /\ (waiters[w].pc = "done" /\ waiters[w].signal # {}) =>
                  /\ waiters[w].result.status = "resolved"
                  /\ waiters[w].result.value # {}
            /\ (waiters[w].pc = "done" /\ waiters[w].signal = {}) =>
                  waiters[w].result = Rejected("DatabaseNotConnected")

\* C8: an ensureDb call made while a session handle is recorded resolves with
\* that handle at once, without waiting, whatever the connected flag says.
C8_HandleReturnedAtOnce ==
    \A w \in DOMAIN waiters :
        waiters[w].dbAtCall # {} =>
            /\ waiters[w].pc = "done"
            /\ ~waiters[w].waited
            /\ waiters[w].result = Resolved(waiters[w].dbAtCall)

\* C8 witness: ensureDb was called after a close signal (handle recorded,
\* manager Disconnected) and has returned.
C8_Witness ==
    \E w \in DOMAIN waiters :
        /\ waiters[w].dbAtCall # {}
        /\ ~waiters[w].wasConnected
        /\ waiters[w].result.status = "resolved"

EnsureDbStep ==
    \/ EnsureDb
    \/ \E w \in DOMAIN waiters :
          WaiterTimeout(w) \/ RetryGetDbResume(w) \/ EnsureDbResume(w)

\* C9 (as claimed): no step of an ensureDb call starts or advances a connection
\* attempt, and every caller whose wait was resolved by a "connected" event
\* resolves with the session handle recorded at that event.
C9_WaitersShareTheEvent ==
    [][ /\ EnsureDbStep => UNCHANGED << procs, connectionPromise, connection, clientOpen >>
        /\ \A w \in DOMAIN waiters' :
              (waiters'[w].pc = "done" /\ waiters'[w].signal # {}) =>
                  waiters'[w].result = Resolved(waiters'[w].signal)
      ]_vars

\* C10: getDb returns the session handle exactly when the manager is Connected,
\* throws DatabaseNotConnected otherwise, and changes nothing.
C10_GetDbIffConnected ==
    [][ ret'.op = "getDb" =>
            /\ ret'.ok <=> connection.isConnected
            /\ ret'.ok => (ret'.value = connection.db /\ connection.db # {})
            /\ ~ret'.ok => ret'.error = {"DatabaseNotConnected"}
            /\ UNCHANGED << connection, connectionPromise, maxRetries, retryDelay,
                            procs, setups, waiters, discs, clientOpen,
                            closeListeners, errorListeners, now >>
      ]_vars

\* C10 witness: getDb has just thrown although a handle is recorded (the
\* manager is Disconnected after a close signal).
C10_Witness ==
    /\ ret.op = "getDb"
    /\ ~ret.ok
    /\ connection.db # {}

\* The disconnect invocations that return in this step.
TeardownReturns ==
    { d \in DOMAIN discs' :
        /\ discs'[d] \in {"noop", "done"}
        /\ (d \notin DOMAIN discs \/ discs[d] = "closing") }

\* C11 (as claimed): whenever a disconnect call returns, from whatever state it
\* was called in, the manager is Disconnected, holds no session handle and no
\* client, and the in-flight setup marker is cleared (so that the next setup
\* call starts a fresh connection attempt).
C11_TeardownClearsState ==
    [][ TeardownReturns # {} =>
            /\ connection' = NoConnection
            /\ ~isConnected(connection').flag
            /\ ~Coalesced(connectionPromise')
      ]_vars

\* The establishment procedures and the teardowns in progress.
Establishing == { p \in DOMAIN procs : ~Ended(procs[p]) }

Closing == { d \in DOMAIN discs : discs[d] = "closing" }

\* C12 (as claimed): at any time at most one establishment procedure and at
\* most one teardown is in progress; a call arriving while one is in flight
\* starts no second one.
C12_NoReentry ==
    /\ Cardinality(Establishing) <= 1
    /\ Cardinality(Closing) <= 1

\* C13 (as claimed): a setup call that omits maxRetries and retryDelay and
\* starts an establishment procedure starts it with maxRetries = 5 and
\* retryDelay = 1000, in every state of the manager.
C13_DefaultsWhenOmitted ==
    [][ (/\ Setup([maxRetries |-> {}, retryDelay |-> {}])
         /\ Len(procs') > Len(procs)) =>
            /\ procs'[Len(procs')].startMR = DefaultMaxRetries
            /\ procs'[Len(procs')].startRD = DefaultRetryDelay
      ]_vars

\* --------------------------------------------------- repository claims
InsertKinds == {"insertOne", "insertMany"}

UpdateKinds == {"updateOne", "updateMany", "findOneAndUpdate"}

DeleteKinds == {"deleteOne", "deleteMany"}

\* The collection has executed a call of one of the kinds.
Wrote(kinds) == \E u \in DOMAIN ops : ops[u].kind \in kinds /\ ops[u].wrote

\* The step in which the collection executes the storage call of invocation o
\* of one of the kinds: the collection is read or written, and what the
\* driver's promise will settle with (reply) is decided.
StorageStep(o, kinds) ==
    /\ ops[o].kind \in kinds
    /\ ops[o].pc = "issued"
    /\ ops'[o].pc = "executed"

\* The step in which the driver's promise of the storage call of invocation o
\* settles and the method settles with its result.
ReturnStep(o, kinds) ==
    /\ ops[o].kind \in kinds
    /\ ops[o].pc = "executed"
    /\ ops'[o].pc = "done"

\* An item of the input fails the schema.
InvalidInput(op) ==
    \E i \in DOMAIN op.docs :
        op.docs[i].email \notin ValidEmails \/ op.docs[i].age = Null

\* C14: an insertOne or insertMany call with an item that fails the schema
\* (anywhere in the batch) has rejected with the validation error at once,
\* without calling the collection and without handing it a document; every
\* stored document was handed to the collection by a call that passed
\* validation.
C14_InvalidInputWritesNothing ==
    /\ \A o \in DOMAIN ops :
          (ops[o].kind \in InsertKinds /\ InvalidInput(ops[o])) =>
              /\ ops[o].pc = "done"
              /\ ops[o].result = Thrown({"ZodError"})
              /\ ~ops[o].wrote
              /\ ops[o].sentDocs = << >>
              /\ ops[o].waiter = 0
    /\ \A i \in DOMAIN store :
          \E o \in DOMAIN ops :
              /\ ops[o].kind \in InsertKinds
              /\ ops[o].wrote
              /\ ~InvalidInput(ops[o])
              /\ \E k \in DOMAIN ops[o].sentDocs : ops[o].sentDocs[k]._id = store[i]._id

\* C14 witness: an insertMany whose first item is valid and whose second item
\* is not has been rejected, after another call has written a document.
C14_Witness ==
    /\ store # << >>
    /\ \E o \in DOMAIN ops :
          /\ ops[o].kind = "insertMany"
          /\ ops[o].docs[1].email \in ValidEmails
          /\ InvalidInput(ops[o])
          /\ ops[o].result.error = {"ZodError"}

\* C15: the instants the generator has returned, in the order of its calls, are
\* strictly increasing (so no two calls received the same instant), whatever
\* the clock read and whichever repositories the calls were made on, and the
\* generator remembers the last of them.
C15_InstantsStrictlyIncrease ==
    /\ \A o \in DOMAIN ops :
          /\ \A i \in 1..(Len(ops[o].stamps) - 1) :
                ops[o].stamps[i] < ops[o].stamps[i + 1]
          /\ \A i \in DOMAIN ops[o].stamps : ops[o].stamps[i] <= lastTimestamp
    /\ \A o1, o2 \in DOMAIN ops :
          (o1 < o2 /\ ops[o1].stamps # << >> /\ ops[o2].stamps # << >>) =>
              ops[o1].stamps[Len(ops[o1].stamps)] < ops[o2].stamps[1]
    /\ (lastTimestamp # 0) =>
          \E o \in DOMAIN ops :
              ops[o].stamps # << >> /\ ops[o].stamps[Len(ops[o].stamps)] = lastTimestamp

\* C15 witness: two insertOne calls with the input _id 100, the first on a
\* repository whose schema declares _id (the _id is kept), the second on a
\* repository whose schema does not (the _id is not the input's), both under
\* way; the clock read 3 and then 3 or less, the instants returned are 3 and 4.
C15_Witness ==
    /\ Len(ops) >= 2
    /\ \A o \in {1, 2} :
          /\ ops[o].kind = "insertOne"
          /\ ops[o].docs[1]._id = {100}
          /\ ops[o].pc \in {"awaiting", "issued"}
    /\ ops[1].sentDocs[1]._id = {100}
    /\ ops[2].sentDocs[1]._id # {100}
    /\ ops[1].stamps = << 3 >>
    /\ ops[2].stamps = << 4 >>

\* C16: with timestamps enabled, a resolved insertOne was given one instant,
\* handed the collection a document whose createdAt and updatedAt are both that
\* instant, and returned that very document as doc; the document is stored
\* until a delete removes it, with that createdAt and updatedAt until an update
\* changes it.
C16_InsertOneStampsOnce ==
    repo.timestamps =>
        \A o \in DOMAIN ops :
            (ops[o].kind = "insertOne" /\ ops[o].result.status = "resolved") =>
                LET d == ops[o].sentDocs[1]
                IN  /\ Len(ops[o].stamps) = 1
                    /\ d.createdAt = { ops[o].stamps[1] }
                    /\ d.updatedAt = d.createdAt
                    /\ ops[o].result.doc = {d}
                    /\ ~Wrote(DeleteKinds) => \E i \in DOMAIN store : store[i]._id = d._id
                    /\ ~Wrote(UpdateKinds \cup DeleteKinds)
                          => \E i \in DOMAIN store :
                                 /\ store[i]._id = d._id
                                 /\ store[i].createdAt = d.createdAt
                                 /\ store[i].updatedAt = d.updatedAt

\* C16 witness: an insertOne with timestamps has resolved with the document it
\* stored, stamped with an instant the clock did not read (the instant after
\* the one of an earlier call).
C16_Witness ==
    /\ repo.timestamps
    /\ \E o \in DOMAIN ops :
          /\ ops[o].kind = "insertOne"
          /\ ops[o].result.status = "resolved"
          /\ ops[o].stamps = << 4 >>
          /\ \E i \in DOMAIN store : { store[i] } = ops[o].result.doc

\* C17 (as claimed): with timestamps enabled, every step of an update method
\* that changes a stored document leaves its updatedAt strictly greater than
\* before and its createdAt as it was.
C17_UpdatesAdvanceUpdatedAt ==
    [][ (repo.timestamps /\ \E o \in DOMAIN ops : StorageStep(o, UpdateKinds)) =>
            \A i \in DOMAIN store :
                store'[i] # store[i] =>
                    /\ \A t \in store[i].updatedAt :
                          \A t2 \in store'[i].updatedAt : t2 > t
                    /\ store'[i].updatedAt # {}
                    /\ store'[i].createdAt = store[i].createdAt
      ]_vars

\* C18 (as claimed): with timestamps enabled, the update an update method hands
\* to the collection has a $set whose updatedAt is the instant generated for the
\* call, with the caller's other $set fields and other operators unchanged.
C18_UpdatedAtInjected ==
    repo.timestamps =>
        \A o \in DOMAIN ops :
            ops[o].kind \in UpdateKinds =>
                LET given == IF ops[o].update.set = {} THEN NoSet
                                                       ELSE The(ops[o].update.set)
                IN  /\ Len(ops[o].stamps) = 1
                    /\ ops[o].sentUpdate.set # {}
                    /\ \A set \in ops[o].sentUpdate.set :
                          /\ set.updatedAt = { ops[o].stamps[1] }
                          /\ set.age = given.age
                          /\ set.createdAt = given.createdAt
                    /\ ops[o].sentUpdate.inc = ops[o].update.inc

\* C19 (as claimed): with timestamps disabled, no stored document and no doc
\* returned by insertOne carries createdAt or updatedAt.
C19_NoTimestampsWhenDisabled ==
    ~repo.timestamps =>
        /\ \A i \in DOMAIN store :
              store[i].createdAt = {} /\ store[i].updatedAt = {}
        /\ \A o \in DOMAIN ops :
              \A d \in ops[o].result.doc :
                  ops[o].kind = "insertOne" => (d.createdAt = {} /\ d.updatedAt = {})

\* C20: when findOne or findOneStrict reads the collection and no stored
\* document matches the filter, findOneStrict rejects with DocumentNotFound
\* carrying the filter it was called with and findOne resolves with null; when
\* a stored document matches, both resolve with a document that matches.
C20_FindOneStrictOrNull ==
    [][ \A o \in DOMAIN ops :
            /\ StorageStep(o, {"findOne", "findOneStrict"}) =>
                  LET found == { store[i] : i \in { k \in DOMAIN store :
                                      /\ ops[o].filter._id \in { {}, store[k]._id }
                                      /\ ops[o].filter.email \in
                                             { {}, { store[k].email } } } }
                      read == ops'[o].reply
                  IN  /\ read.status = "resolved"
                      /\ IF found = {} THEN read.doc = {}
                                       ELSE read.doc # {} /\ read.doc \subseteq found
            /\ ReturnStep(o, {"findOne", "findOneStrict"}) =>
                  LET read == ops[o].reply
                      result == ops'[o].result
                  IN  IF read.doc = {}
                      THEN IF ops[o].kind = "findOneStrict"
                           THEN /\ result.status = "rejected"
                                /\ result.error = {"DocumentNotFound"}
                                /\ result.filter = { ops[o].filter }
                           ELSE /\ result.status = "resolved"
                                /\ result.doc = {}
                      ELSE /\ result.status = "resolved"
                           /\ result.doc = read.doc
      ]_vars

\* C20 witness: findOneStrict has rejected with DocumentNotFound on a collection
\* that holds a document its filter does not match.
C20_Witness ==
    /\ store # << >>
    /\ \E o \in DOMAIN ops :
          /\ ops[o].kind = "findOneStrict"
          /\ ops[o].result.error = {"DocumentNotFound"}
          /\ ops[o].result.filter = { ops[o].filter }

\* The positions of the stored documents a filter selects.
Selected(filter) ==
    { k \in DOMAIN store :
        /\ filter._id \in { {}, store[k]._id }
        /\ filter.email \in { {}, { store[k].email } } }

\* C21 (as claimed): whatever options the caller passes, findOneAndUpdate asks
\* the collection for the document after the update; when the collection finds
\* a document, it is the first selected document as it is stored after the
\* update, and the method resolves with it; when the collection finds none the
\* method rejects with DocumentNotFound carrying the filter it was called with.
C21_ReturnsDocumentAfter ==
    [][ \A o \in DOMAIN ops :
            /\ StorageStep(o, {"findOneAndUpdate"}) =>
                  LET M == Selected(ops[o].filter)
                      found == ops'[o].reply
                  IN  /\ ops[o].sentOptions.returnDocument = {"after"}
                      /\ IF M = {}
                         THEN /\ found.status = "resolved"
                              /\ found.doc = {}
                              /\ store' = store
                         ELSE \/ /\ found.status = "resolved"
                                 /\ found.doc = { store'[Min(M)] }
                              \/ found.error = {"MongoServerError"}
            /\ ReturnStep(o, {"findOneAndUpdate"}) =>
                  LET found == ops[o].reply
                      result == ops'[o].result
                  IN  IF found.status = "resolved" /\ found.doc = {}
                      THEN /\ result.status = "rejected"
                           /\ result.error = {"DocumentNotFound"}
                           /\ result.filter = { ops[o].filter }
                      ELSE result = found
      ]_vars

\* C23 (as claimed): when findOne reads the collection with the filter
\* { _id } of the doc an insertOne returned, and no other invocation has
\* written, it resolves with a document equal to that doc.
C23_InsertThenFindOne ==
    [][ \A o \in DOMAIN ops :
            /\ StorageStep(o, {"findOne"}) =>
                  \A i \in DOMAIN ops :
                      (/\ ops[i].kind = "insertOne"
                       /\ ops[i].result.status = "resolved"
                       /\ \A u \in DOMAIN ops : ops[u].wrote => u = i
                       /\ \E d \in ops[i].result.doc :
                             ops[o].filter = [NoFilter EXCEPT !._id = d._id]) =>
                          ops'[o].reply.doc = ops[i].result.doc
            /\ ReturnStep(o, {"findOne"}) => ops'[o].result = ops[o].reply
      ]_vars

\* C24: with timestamps enabled, every document an insertMany hands to the
\* collection has one instant as both its createdAt and its updatedAt, and the
\* instants of a batch are strictly increasing in batch order; the documents
\* of a resolved insertMany are stored until a delete removes them.
C24_BatchInstantsIncrease ==
    repo.timestamps =>
        \A o \in DOMAIN ops :
            (ops[o].kind = "insertMany" /\ ops[o].waiter # 0) =>
                LET sent == ops[o].sentDocs
                IN  /\ Len(sent) = Len(ops[o].docs)
                    /\ \A i \in DOMAIN sent :
                          /\ Cardinality(sent[i].createdAt) = 1
                          /\ sent[i].updatedAt = sent[i].createdAt
                    /\ \A i, j \in DOMAIN sent :
                          i < j => \A t \in sent[i].createdAt :
                                      \A t2 \in sent[j].createdAt : t < t2
                    /\ (ops[o].result.status = "resolved" /\ ~Wrote(DeleteKinds)) =>
                          \A i \in DOMAIN sent :
                              \E k \in DOMAIN store : store[k]._id = sent[i]._id

\* C24 witness: an insertMany has stored its two documents with the instants 3
\* and 4, the second one an instant the clock did not read.
C24_Witness ==
    /\ repo.timestamps
    /\ \E o \in DOMAIN ops :
          /\ ops[o].kind = "insertMany"
          /\ ops[o].result.status = "resolved"
          /\ \E i, j \in DOMAIN store :
                /\ store[i] = ops[o].sentDocs[1]
                /\ store[j] = ops[o].sentDocs[2]
                /\ store[i].createdAt = {3}
                /\ store[j].createdAt = {4}

\* C27 (as claimed): the doc an insertOne stores and returns has the _id of the
\* input when the input has one, and otherwise an _id that no document returned
\* or stored before has; no step changes the _id of a stored document (a
\* delete removes documents and leaves the others as they are).
C27_IdentifierKept ==
    [][ /\ IF \E o \in DOMAIN ops : StorageStep(o, DeleteKinds)
           THEN \A k \in DOMAIN store' : \E j \in DOMAIN store : store[j] = store'[k]
           ELSE \A k \in DOMAIN store : store'[k]._id = store[k]._id
        /\ \A o \in DOMAIN ops :
              /\ (StorageStep(o, {"insertOne"}) /\ ops'[o].reply.status = "resolved") =>
                    LET d == ops[o].sentDocs[1]
                    IN  /\ \E k \in DOMAIN store' : store'[k] = d
                        /\ IF ops[o].docs[1]._id # {}
                           THEN d._id = ops[o].docs[1]._id
                           ELSE /\ d._id # {}
                                /\ \A k \in DOMAIN store : store[k]._id # d._id
                                /\ \A u \in DOMAIN ops :
                                      \A e \in ops[u].result.doc : e._id # d._id
              /\ (ReturnStep(o, {"insertOne"}) /\ ops[o].reply.status = "resolved") =>
                    ops'[o].result.doc = { ops[o].sentDocs[1] }
      ]_vars

\* C28 (as claimed): an error signal of the client received while the manager
\* is Connected leaves the manager Disconnected.
C28_ErrorDisconnects ==
    [][ ((\E handled \in BOOLEAN : TransportError(handled)) /\ isConnected(connection).flag) =>
            ~isConnected(connection').flag
      ]_vars

\* What findMany promises for a limit L, a skip S and an ascending sort by
\* age, when it reads a collection in which its filter selects at least S + L
\* documents: it resolves with L selected documents, no document twice, in
\* ascending order of age, the k-th of them a document at offset S + k of the
\* selected documents in ascending order (each as it is stored, whole when no
\* fields are asked for).
LimitSkipSorted(o, L, S) ==
    LET M == Selected(ops[o].filter)
        found == ops'[o].reply.docs
        age(d) == store[CHOOSE k \in M : store[k]._id = d._id].age.n
        lower(d) == Cardinality({ k \in M : store[k].age.n < age(d) })
        upTo(d) == Cardinality({ k \in M : store[k].age.n <= age(d) })
    IN  S + L <= Cardinality(M) =>
            /\ ops'[o].reply.status = "resolved"
            /\ Len(found) = L
            /\ \A i \in DOMAIN found :
                  \E k \in M : /\ store[k]._id = found[i]._id
                               /\ ops[o].options.fields = {} => store[k] = found[i]
            /\ \A i, j \in DOMAIN found : i < j => /\ found[i]._id # found[j]._id
                                                  /\ age(found[i]) <= age(found[j])
            /\ \A i \in DOMAIN found : /\ lower(found[i]) <= S + i - 1
                                       /\ upTo(found[i]) >= S + i

\* The skip of an invocation: 0 when the caller passes none.
SkipOf(o) == IF ops[o].options.skip = {} THEN 0 ELSE The(ops[o].options.skip)

\* C22 (as claimed): for every limit L and skip S, findMany with an ascending
\* sort returns exactly the L selected documents at offset S in ascending
\* order: the collection reads them, and findMany resolves with what was read.
C22_LimitSkipSorted ==
    [][ \A o \in DOMAIN ops :
            /\ (/\ StorageStep(o, {"findMany"})
                /\ ops[o].options.sort = {1}
                /\ ops[o].options.limit # {}) =>
                   LimitSkipSorted(o, The(ops[o].options.limit), SkipOf(o))
            /\ ReturnStep(o, {"findMany"}) => ops'[o].result = ops[o].reply
      ]_vars

\* C22 (amended): the same for every limit L of at least 1; with a limit of 0
\* findMany returns all the selected documents from offset S on.
C22_LimitSkipSortedPositive ==
    [][ \A o \in DOMAIN ops :
            /\ (/\ StorageStep(o, {"findMany"})
                /\ ops[o].options.sort = {1}
                /\ ops[o].options.limit # {}) =>
                   LET M == Selected(ops[o].filter)
                       L == The(ops[o].options.limit)
                   IN  IF L >= 1
                       THEN LimitSkipSorted(o, L, SkipOf(o))
                       ELSE SkipOf(o) <= Cardinality(M) =>
                               LimitSkipSorted(o, Cardinality(M) - SkipOf(o), SkipOf(o))
            /\ ReturnStep(o, {"findMany"}) => ops'[o].result = ops[o].reply
      ]_vars

\* C22 witness: findMany with limit 2, skip 1 and the ascending sort has read
\* the collection of four documents, whose natural order is not the order of
\* age, and returned the second and the third in order of age.
C22_Witness ==
    /\ Len(store) = 4
    /\ \E o \in DOMAIN ops :
          /\ ops[o].kind = "findMany"
          /\ ops[o].filter = NoFilter
          /\ ops[o].options = [NoOptions EXCEPT !.sort = {1}, !.skip = {1},
                                                !.limit = {2}]
          /\ ops[o].result.status = "resolved"
          /\ Len(ops[o].result.docs) = 2
          /\ ops[o].result.docs[1].age = Num(2)
          /\ ops[o].result.docs[2].age = Num(2)

\* C26: when exists reads the collection it resolves with true if and only if
\* at least one stored document is selected by its filter, which is when
\* countDocuments on the same collection and filter is greater than 0; and
\* countDocuments resolves with the number of selected documents.
C26_ExistsIffCounted ==
    [][ \A o \in DOMAIN ops :
            /\ StorageStep(o, {"exists", "countDocuments"}) =>
                  /\ ops'[o].reply.status = "resolved"
                  /\ ops'[o].reply.n = Cardinality(Selected(ops[o].filter))
                  /\ ops'[o].reply.n = collection_countDocuments(store, ops[o].filter)
            /\ ReturnStep(o, {"exists"}) =>
                  /\ ops'[o].result.status = "resolved"
                  /\ ops'[o].result.flag <=> ops[o].reply.n > 0
            /\ ReturnStep(o, {"countDocuments"}) =>
                  /\ ops'[o].result.status = "resolved"
                  /\ ops'[o].result.n = ops[o].reply.n
      ]_vars

\* C26 witness: exists has resolved with true on a collection that holds exactly
\* one document its filter selects and a document it does not select.
C26_Witness ==
    \E o \in DOMAIN ops :
        /\ ops[o].kind = "exists"
        /\ ops[o].result.status = "resolved"
        /\ ops[o].result.flag
        /\ Cardinality(Selected(ops[o].filter)) = 1
        /\ Len(store) > 1

\* C25: when the ensureDb call of a repository method has rejected (with
\* DatabaseNotConnected, the only error it rejects with), the method rejects
\* with that error, makes no storage call and leaves the collection unchanged.
C25_NotConnectedRejects ==
    [][ \A o \in DOMAIN ops :
            (/\ ops[o].pc = "awaiting"
             /\ ops'[o].pc # "awaiting"
             /\ waiters[ops[o].waiter].result.status = "rejected") =>
                /\ waiters[ops[o].waiter].result.error = {"DatabaseNotConnected"}
                /\ ops'[o].pc = "done"
                /\ ops'[o].result = Thrown({"DatabaseNotConnected"})
                /\ ~ops'[o].wrote
                /\ store' = store
      ]_vars

\* C25 witness: an insert called with a valid input and a find, distinct or
\* collection() call, on a manager that was not connected, have waited at the
\* same time until their timeouts and rejected with DatabaseNotConnected,
\* without a storage call.
C25_Witness ==
    \E o, q \in DOMAIN ops :
        /\ ops[o].kind \in InsertKinds
        /\ ops[q].kind \in {"find", "distinct", "collection"}
        /\ \A u \in {o, q} :
              /\ ops[u].result = Thrown({"DatabaseNotConnected"})
              /\ ~ops[u].wrote
              /\ waiters[ops[u].waiter].waited
        /\ now >= DefaultMaxRetries * DefaultRetryDelay

\* A step of getDb, isConnected, ensureDb (a call, or a continuation of a call:
\* its timeout, its resumption after the wait) or of a repository method.
ReadingStep ==
    \/ ret'.op \in {"getDb", "isConnected"}
    \/ Len(waiters') > Len(waiters)
    \/ \E w \in DOMAIN waiters :
          /\ waiters'[w].pc # waiters[w].pc
          /\ waiters'[w].pc # "signalled"
    \/ ops' # ops

\* C29: no step of getDb, isConnected, ensureDb or a repository method changes
\* the connection (handle, client, connected flag), the promise of the setup in
\* flight or the retry configuration; the handle is only written by the step
\* that finishes an establishment and by the step that finishes a teardown.
C29_ReadsLeaveConnection ==
    [][ /\ ReadingStep =>
              UNCHANGED << connection, connectionPromise, maxRetries, retryDelay >>
        /\ connection'.db # connection.db =>
              \/ \E p \in DOMAIN procs :
                    procs[p].pc = "connecting" /\ procs'[p].pc = "resolved"
              \/ \E d \in DOMAIN discs : discs[d] = "closing" /\ discs'[d] = "done"
      ]_vars

\* C29 witness: isConnected has returned true on a manager whose setup has
\* connected, after an ensureDb call that waited has resolved and a repository
\* method has made its storage call.
C29_Witness ==
    /\ ret.op = "isConnected"
    /\ ret.flag
    /\ connectionPromise # 0
    /\ connection.db # {}
    /\ \E o \in DOMAIN ops :
          /\ ops[o].wrote
          /\ waiters[ops[o].waiter].waited
          /\ waiters[ops[o].waiter].result.status = "resolved"

\* C30: an insertOne or insertMany call with an item that fails the schema
\* rejects with the validation error in the step of the call, whatever the
\* state of the connection: no ensureDb call is made, nothing is waited for and
\* the collection is not called.
C30_ValidationBeforeWait ==
    [][ Len(ops') > Len(ops) =>
            LET op == ops'[Len(ops')]
            IN  (op.kind \in InsertKinds /\ InvalidInput(op)) =>
                    /\ op.pc = "done"
                    /\ op.result = Thrown({"ZodError"})
                    /\ op.waiter = 0
                    /\ waiters' = waiters
                    /\ store' = store
      ]_vars

\* C30 witness: an invalid insert has rejected with the validation error on a
\* manager that has never been connected and is establishing its connection,
\* while a method called before it waits for the connection.
C30_Witness ==
    /\ ~connection.isConnected
    /\ connection.db = {}
    /\ \E p \in DOMAIN procs : procs[p].pc = "connecting"
    /\ \E o \in DOMAIN ops :
          /\ ops[o].kind \in InsertKinds
          /\ InvalidInput(ops[o])
          /\ ops[o].result = Thrown({"ZodError"})
          /\ ops[o].pc = "done"
          /\ \E q \in 1..(o - 1) :
                ops[q].pc = "awaiting" /\ waiters[ops[q].waiter].pc = "waiting"

\* C31 (as claimed): the update object a caller passed to updateOne,
\* updateMany or findOneAndUpdate is after the call what it was before; the
\* instant generated for the call is in the update handed to the collection.
C31_CallerUpdateUntouched ==
    \A o \in DOMAIN ops :
        ops[o].kind \in UpdateKinds =>
            /\ ops[o].updateAfter = ops[o].update
            /\ repo.timestamps =>
                  \A set \in ops[o].sentUpdate.set :
                      set.updatedAt = { ops[o].stamps[1] }

\* Call w of ensureDb has been made.
Called(w) == w \in DOMAIN waiters

\* Call w of ensureDb has settled: resolved with a session handle or rejected
\* with DatabaseNotConnected.
Settled(w) ==
    /\ w \in DOMAIN waiters
    /\ waiters[w].pc = "done"
    /\ \/ waiters[w].result.status = "resolved" /\ waiters[w].result.value # {}
       \/ waiters[w].result = Rejected("DatabaseNotConnected")

\* C32 (as claimed): under fairness of timers and continuations, every
\* ensureDb call eventually resolves with a session handle or rejects with
\* DatabaseNotConnected.
C32_EnsureDbSettles == \A w \in 1..MaxCalls : Called(w) ~> Settled(w)

\* C33 (as claimed): a setup call that returns the promise the manager already
\* holds changes neither the retry limit nor the retry delay, nor the connection,
\* the promise held or an establishment procedure.
C33_CoalescedSetupWritesNothing ==
    [][ (Len(setups') > Len(setups) /\ connectionPromise # 0) =>
            /\ setups'[Len(setups')].promise = connectionPromise
            /\ UNCHANGED << maxRetries, retryDelay, connection, connectionPromise,
                            procs >>
      ]_vars

\* C34: in every reachable state, a manager whose connected flag is true has a
\* session handle and a client recorded.
C34_ConnectedHasHandles ==
    connection.isConnected => (connection.db # {} /\ connection.client # {})

\* C34 witness: the manager is connected with both handles recorded, by a
\* second establishment, after a teardown has completed.
C34_Witness ==
    /\ connection.isConnected
    /\ connection.db = {2}
    /\ connection.client # {}
    /\ \E d \in DOMAIN discs : discs[d] = "done"

\* C35 (as claimed): ensureDb never resolves with an absent handle; whenever
\* a call has resolved, its value is the handle recorded by a successful
\* establishment.
C35_ResolvesWithHandle ==
    \A w \in DOMAIN waiters :
        waiters[w].result.status = "resolved" =>
            /\ waiters[w].result.value # {}
            /\ \A h \in waiters[w].result.value :
                   h \in DOMAIN procs /\ procs[h].established

\* Some disconnect call has returned since the latest setup call. Every
\* teardown step (a call or a completion) taken since that setup is a return,
\* except a call that is still closing; more steps than closing calls
\* therefore means that one of them returned.
TeardownReturnedSinceSetup ==
    /\ setups # << >>
    /\ TeardownSteps - setups[Len(setups)].epoch > Cardinality(Closing)

\* C36 (as claimed): once a disconnect call has returned, the manager does not
\* become Connected and emits no "connected" event until setup is called
\* again, also when disconnect was called while an establishment was in
\* flight.
C36_NoConnectAfterTeardown ==
    [][ (\/ CountEvents(emitted', "connected") > 0
         \/ (~connection.isConnected /\ connection'.isConnected))
            => ~TeardownReturnedSinceSetup
      ]_vars

\* The client's 'close' event is delivered in this step to a client on which
\* an establishment has registered its listeners.
CloseSignalled ==
    /\ clientOpen
    /\ ~clientOpen'
    /\ discs' = discs
    /\ closeListeners > 0

\* C37 (as claimed): a single transport close signal causes exactly one
\* "disconnected" event, also after setup, disconnect, setup cycles on the
\* same client: the listeners do not accumulate across establishments.
C37_OneDisconnectedPerClose ==
    [][ CloseSignalled => CountEvents(emitted', "disconnected") = 1 ]_vars

\* The update invocations that have completed their storage call on the
\* stored document.
CompletedUpdates ==
    { o \in DOMAIN ops :
        /\ ops[o].kind \in UpdateKinds
        /\ ops[o].pc = "done"
        /\ ops[o].wrote
        /\ ops[o].result.status = "resolved" }

\* C38 (as claimed): when overlapping update calls on the same document have
\* all completed, the stored updatedAt is the latest of the instants they
\* generated (that of the last call: the instants increase from call to
\* call), in whatever order the collection applied them.
C38_LaterInstantStored ==
    (repo.timestamps /\ Len(ops) >= 2 /\ CompletedUpdates = DOMAIN ops) =>
            \A k \in DOMAIN store :
                store[k].updatedAt = { ops[Len(ops)].stamps[1] }

\* C39: with timestamps enabled, createdAt and updatedAt of every document an
\* insertOne or insertMany call hands to the collection, and of every stored
\* document, are the instant generated for that document, also when the
\* validated input carried values of its own.
C39_StampsOverwriteInput ==
    repo.timestamps =>
        /\ \A o \in DOMAIN ops :
               ops[o].kind \in InsertKinds =>
                   \A i \in DOMAIN ops[o].sentDocs :
                       /\ ops[o].sentDocs[i].createdAt = { ops[o].stamps[i] }
                       /\ ops[o].sentDocs[i].updatedAt = { ops[o].stamps[i] }
        /\ \A k \in DOMAIN store :
               \E o \in DOMAIN ops : \E i \in DOMAIN ops[o].sentDocs :
                   /\ ops[o].wrote
                   /\ store[k]._id = ops[o].sentDocs[i]._id
                   /\ store[k].createdAt = { ops[o].stamps[i] }
                   /\ store[k].updatedAt = { ops[o].stamps[i] }

\* C39 witness: an insertOne call whose input carried createdAt and updatedAt,
\* under a schema that declares them, has written its document, stamped with
\* the generated instant.
C39_Witness ==
    /\ repo.timestamps
    /\ \E o \in DOMAIN ops :
           /\ ops[o].kind = "insertOne"
           /\ ops[o].wrote
           /\ repo.stampsInSchema
           /\ ops[o].docs[1].createdAt = {0}
           /\ ops[o].docs[1].updatedAt = {0}
           /\ \E k \in DOMAIN store :
                  /\ store[k]._id = ops[o].sentDocs[1]._id
                  /\ store[k].createdAt = { ops[o].stamps[1] }
                  /\ store[k].createdAt # {0}

\* The ensureDb calls whose "connected" listener is registered, whose timeout
\* is armed, and whose wait in retryGetDb has not settled.
Listening == { w \in DOMAIN waiters : waiters[w].listening }

Armed == { w \in DOMAIN waiters : waiters[w].timer }

StillWaiting == { w \in DOMAIN waiters : waiters[w].pc = "waiting" }

\* C40: in every reachable state the "connected" listeners registered by
\* ensureDb are as many as the ensureDb calls still waiting (they are the
\* listeners of those calls); a call whose wait has settled, by the event or by
\* the timeout, has no listener registered and no timeout armed.
C40_ListenersMatchWaiters ==
    /\ Cardinality(Listening) = Cardinality(StillWaiting)
    /\ Listening = StillWaiting
    /\ Armed \subseteq StillWaiting

\* C40 witness: one call's wait was settled by the timeout and another's by the
\* "connected" event; neither has a listener or a timeout left.
C40_Witness ==
    \E w1, w2 \in DOMAIN waiters :
        /\ waiters[w1].waited /\ waiters[w1].signal = {}
        /\ waiters[w1].result = Rejected("DatabaseNotConnected")
        /\ waiters[w2].waited /\ waiters[w2].signal # {}
        /\ { w1, w2 } \cap (Listening \cup Armed) = {}

====
